---- MODULE Spec2Model ----
(***************************************************************************)
(* A model of xocto's range algebra (src/xocto/ranges.py): Range, its      *)
(* subclasses and RangeSet; and of its interval tree                       *)
(* (src/xocto/intervaltree.py): Interval and IntervalTree.                 *)
(*                                                                         *)
(* Values of the element type T are integers.  Endpoints are drawn from    *)
(* the even numbers 0, 2, .., 2*MaxPoint and items from every integer      *)
(* between -1 and 2*MaxPoint+1, so that there is an item below, above and  *)
(* strictly between any two endpoints: Range only ever compares values     *)
(* and knows nothing about two values being adjacent (ranges.py:138).      *)
(*                                                                         *)
(* An optional value (Optional[T]) is the empty tuple << >> when absent    *)
(* and the one-tuple << v >> when present.  What a call returns is a       *)
(* record tagged by its field kind: a Range, a RangeSet, None, a bool, or  *)
(* the exception the call raised.                                          *)
(***************************************************************************)
EXTENDS Integers, Sequences, FiniteSets, TLC

MaxPoint == 3

MaxBoundary == 2

MaxIntervals == 2

MaxGiven == 2

MaxDate == 3

MaxList == 3

MaxListPoint == 1

(* LET name == value IN Op(name), with value written once however often
   Op uses it. *)
With(value, Op(_)) == Op(value)

Absent == << >>

Some(v) == << v >>

EndPoints == { 2 * k : k \in 0..MaxPoint }

OptEndPoints == { Absent } \cup { Some(v) : v \in EndPoints }

Items == (0 - 1)..(2 * MaxPoint + 1)

NoneR == [kind |-> "None"]

ValueError == [kind |-> "ValueError"]

Bool(v) == [kind |-> "bool", value |-> v]

(***************************************************************************)
(* RangeBoundaries                                                         *)
(***************************************************************************)
RangeBoundaries == { "()", "(]", "[)", "[]" }

from_bounds(left_exclusive, right_exclusive) ==
    IF left_exclusive
    THEN (IF right_exclusive THEN "()" ELSE "(]")
    ELSE (IF right_exclusive THEN "[)" ELSE "[]")

_is_left_exclusive(r) == r.boundaries \in { "()", "(]" }

_is_right_exclusive(r) == r.boundaries \in { "()", "[)" }

_is_left_inclusive(r) == ~ _is_left_exclusive(r)

_is_right_inclusive(r) == ~ _is_right_exclusive(r)

(***************************************************************************)
(* Range.__init__: the validation, then the object.                        *)
(***************************************************************************)
(* As check_op, but start < end is asked of every boundary combination. *)
check_op_always_strict(boundaries, start, end) == start < end

check_op(boundaries, start, end) ==
    IF boundaries = "[]" THEN start <= end ELSE start < end

Range(start, end, boundaries) ==
    LET left_excl == boundaries \in { "()", "(]" }
        right_excl == boundaries \in { "()", "[)" }
    IN  IF start = Absent /\ ~ left_excl THEN ValueError
        ELSE IF end = Absent
        THEN (IF ~ right_excl
              THEN ValueError
              ELSE [kind |-> "Range", start |-> start, end |-> end,
                    boundaries |-> boundaries])
        ELSE IF start # Absent /\ ~ check_op(boundaries, start[1], end[1])
        THEN ValueError
        ELSE [kind |-> "Range", start |-> start, end |-> end,
              boundaries |-> boundaries]

continuum == Range(Absent, Absent, "()")

ValidRanges ==
    { Range(s, e, bd) : s \in OptEndPoints, e \in OptEndPoints,
                        bd \in RangeBoundaries } \ { ValueError }

(***************************************************************************)
(* Range.__eq__ compares (start, end, boundaries), whatever the class.     *)
(***************************************************************************)
__eq__(self, other) ==
    /\ other.kind = "Range"
    /\ self.start = other.start
    /\ self.end = other.end
    /\ self.boundaries = other.boundaries

(* As __lt__, but on equal ends the inclusive-right range comes first. *)
lt_inclusive_end_first(self, other) ==
    IF self.start = other.start
    THEN IF _is_left_exclusive(self) /\ ~ _is_left_exclusive(other)
         THEN FALSE
         ELSE IF ~ _is_left_exclusive(self) /\ _is_left_exclusive(other)
         THEN TRUE
         ELSE IF self.end = other.end
         THEN ~ _is_right_exclusive(self) /\ _is_right_exclusive(other)
         ELSE \/ other.end = Absent
              \/ (self.end # Absent /\ self.end[1] < other.end[1])
    ELSE \/ self.start = Absent
         \/ (other.start # Absent /\ self.start[1] < other.start[1])

(* As __lt__, but comparing the starts alone. *)
lt_start_only(self, other) ==
    IF other.start = Absent THEN FALSE
    ELSE self.start = Absent \/ self.start[1] < other.start[1]

__lt__(self, other) ==
    IF self.start = other.start
    THEN IF _is_left_exclusive(self) /\ ~ _is_left_exclusive(other)
         THEN FALSE
         ELSE IF ~ _is_left_exclusive(self) /\ _is_left_exclusive(other)
         THEN TRUE
         ELSE IF self.end = other.end
         THEN _is_right_exclusive(self) /\ ~ _is_right_exclusive(other)
         ELSE \/ other.end = Absent
              \/ (self.end # Absent /\ self.end[1] < other.end[1])
    ELSE \/ self.start = Absent
         \/ (other.start # Absent /\ self.start[1] < other.start[1])

_is_inside_left_bound(self, item) ==
    IF self.start = Absent THEN TRUE
    ELSE IF _is_left_exclusive(self) THEN item > self.start[1]
    ELSE item >= self.start[1]

_is_inside_right_bound(self, item) ==
    IF self.end = Absent THEN TRUE
    ELSE IF _is_right_exclusive(self) THEN item < self.end[1]
    ELSE item <= self.end[1]

__contains__(self, item) ==
    _is_inside_left_bound(self, item) /\ _is_inside_right_bound(self, item)

(* As is_disjoint, but only the first of the two tests is made. *)
is_disjoint_first_test_only(self, other) ==
    /\ self.end # Absent
    /\ other.start # Absent
    /\ ~ (/\ _is_inside_right_bound(self, other.start[1])
          /\ _is_inside_left_bound(other, self.end[1]))

is_disjoint(self, other) ==
    IF /\ self.end # Absent
       /\ other.start # Absent
       /\ ~ (/\ _is_inside_right_bound(self, other.start[1])
             /\ _is_inside_left_bound(other, self.end[1]))
    THEN TRUE
    ELSE IF /\ self.start # Absent
            /\ other.end # Absent
            /\ ~ (/\ _is_inside_left_bound(self, other.end[1])
                  /\ _is_inside_right_bound(other, self.start[1]))
    THEN TRUE
    ELSE FALSE

(* As intersection, but the end always comes from the lower range. *)
intersection_end_of_lower(self, other) ==
    IF is_disjoint(self, other) THEN NoneR
    ELSE LET range_l == IF __lt__(self, other) THEN self ELSE other
             range_r == IF __lt__(self, other) THEN other ELSE self
         IN  Range(range_r.start, range_l.end,
                   from_bounds(_is_left_exclusive(range_r),
                               _is_right_exclusive(range_l)))

intersection(self, other) ==
    IF is_disjoint(self, other) THEN NoneR
    ELSE LET range_l == IF __lt__(self, other) THEN self ELSE other
             range_r == IF __lt__(self, other) THEN other ELSE self
             keep_l == /\ range_l.end # Absent
                       /\ _is_inside_right_bound(range_r, range_l.end[1])
             end == IF keep_l THEN range_l.end ELSE range_r.end
             right_exclusive == IF keep_l THEN _is_right_exclusive(range_l)
                                ELSE _is_right_exclusive(range_r)
         IN  Range(range_r.start, end,
                   from_bounds(_is_left_exclusive(range_r), right_exclusive))

(* As union, but ranges that only touch are not joined. *)
union_no_touching(self, other) ==
    LET range_l == IF __lt__(self, other) THEN self ELSE other
        range_r == IF __lt__(self, other) THEN other ELSE self
    IN  IF is_disjoint(range_l, range_r)
        THEN NoneR
        ELSE LET keep_l == /\ range_r.end # Absent
                           /\ _is_inside_right_bound(range_l, range_r.end[1])
                 end == IF keep_l THEN range_l.end ELSE range_r.end
                 right_exclusive == IF keep_l THEN _is_right_exclusive(range_l)
                                    ELSE _is_right_exclusive(range_r)
             IN  Range(range_l.start, end,
                       from_bounds(_is_left_exclusive(range_l), right_exclusive))

(* As union, but the end always comes from the higher range. *)
union_end_of_higher(self, other) ==
    LET range_l == IF __lt__(self, other) THEN self ELSE other
        range_r == IF __lt__(self, other) THEN other ELSE self
    IN  IF /\ is_disjoint(range_l, range_r)
           /\ ~ (/\ range_l.end = range_r.start
                 /\ (_is_right_inclusive(range_l) \/ _is_left_inclusive(range_r)))
        THEN NoneR
        ELSE Range(range_l.start, range_r.end,
                   from_bounds(_is_left_exclusive(range_l),
                               _is_right_exclusive(range_r)))

union(self, other) ==
    LET range_l == IF __lt__(self, other) THEN self ELSE other
        range_r == IF __lt__(self, other) THEN other ELSE self
    IN  IF /\ is_disjoint(range_l, range_r)
           /\ ~ (/\ range_l.end = range_r.start
                 /\ (_is_right_inclusive(range_l) \/ _is_left_inclusive(range_r)))
        THEN NoneR
        ELSE LET keep_l == /\ range_r.end # Absent
                           /\ _is_inside_right_bound(range_l, range_r.end[1])
                 end == IF keep_l THEN range_l.end ELSE range_r.end
                 right_exclusive == IF keep_l THEN _is_right_exclusive(range_l)
                                    ELSE _is_right_exclusive(range_r)
             IN  Range(range_l.start, end,
                       from_bounds(_is_left_exclusive(range_l), right_exclusive))

(***************************************************************************)
(* sorted(): a stable insertion sort that only ever asks x < y, as         *)
(* Python's list sort does.                                                *)
(***************************************************************************)
RECURSIVE insort(_, _)
insort(done, x) ==
    IF done = << >> THEN << x >>
    ELSE IF __lt__(x, done[Len(done)])
    THEN Append(insort(SubSeq(done, 1, Len(done) - 1), x), done[Len(done)])
    ELSE Append(done, x)

RECURSIVE sorted(_)
sorted(source) ==
    IF source = << >> THEN << >>
    ELSE insort(sorted(SubSeq(source, 1, Len(source) - 1)), source[Len(source)])

(***************************************************************************)
(* RangeSet._condense_range_list returns the list that becomes _ranges, or *)
(* raises the ValueError of a union on the way.                            *)
(***************************************************************************)
List(items) == [kind |-> "list", items |-> items]

RECURSIVE condense_loop(_, _)
condense_loop(ranges, todo) ==
    IF todo = << >> THEN List(ranges)
    ELSE IF ranges = << >> THEN condense_loop(<< todo[1] >>, Tail(todo))
    ELSE LET previous_range == ranges[Len(ranges)]
             current_range == todo[1]
             popped == SubSeq(ranges, 1, Len(ranges) - 1)
         IN  With(union(previous_range, current_range),
                  LAMBDA u :
                      IF u = ValueError THEN ValueError
                      ELSE IF u # NoneR
                      THEN condense_loop(Append(popped, u), Tail(todo))
                      ELSE condense_loop(popped \o << previous_range, current_range >>,
                                         Tail(todo)))

(* As _condense_range_list, but the source is taken in the order given. *)
condense_unsorted(source_ranges) ==
    condense_loop(<< >>, source_ranges)

_condense_range_list(source_ranges) ==
    condense_loop(<< >>, sorted(source_ranges))

(***************************************************************************)
(* RangeSet.__init__: the new set, or the exception of the condensing.     *)
(***************************************************************************)
RangeSet(source_ranges) ==
    With(_condense_range_list(source_ranges),
         LAMBDA condensed :
             IF condensed = ValueError THEN ValueError
             ELSE [kind |-> "RangeSet", ranges |-> condensed.items])

(* As difference, but the parts take the other range's boundaries as they
   are instead of flipping them. *)
difference_unflipped(self, other) ==
    IF is_disjoint(self, other) THEN self
    ELSE LET has_lower ==
                 \/ (self.start = Absent /\ other.start # Absent)
                 \/ /\ self.start # Absent
                    /\ other.start # Absent
                    /\ ~ _is_inside_left_bound(other, self.start[1])
                    /\ _is_inside_left_bound(self, other.start[1])
             lower_part ==
                 IF has_lower
                 THEN Range(self.start, other.start,
                            from_bounds(_is_left_exclusive(self),
                                        _is_left_exclusive(other)))
                 ELSE NoneR
             has_upper ==
                 \/ (self.end = Absent /\ other.end # Absent)
                 \/ /\ self.end # Absent
                    /\ other.end # Absent
                    /\ ~ _is_inside_right_bound(other, self.end[1])
                    /\ _is_inside_right_bound(self, other.end[1])
             upper_part ==
                 IF has_upper
                 THEN Range(other.end, self.end,
                            from_bounds(_is_right_exclusive(other),
                                        _is_right_exclusive(self)))
                 ELSE NoneR
         IN  IF lower_part = ValueError \/ upper_part = ValueError
             THEN ValueError
             ELSE IF lower_part = NoneR /\ upper_part = NoneR THEN NoneR
             ELSE IF lower_part # NoneR /\ upper_part # NoneR
             THEN RangeSet(<< lower_part, upper_part >>)
             ELSE IF lower_part # NoneR THEN lower_part ELSE upper_part

(* As difference, but a range cut in two gives back only its lower part. *)
difference_lower_only(self, other) ==
    IF is_disjoint(self, other) THEN self
    ELSE LET has_lower ==
                 \/ (self.start = Absent /\ other.start # Absent)
                 \/ /\ self.start # Absent
                    /\ other.start # Absent
                    /\ ~ _is_inside_left_bound(other, self.start[1])
                    /\ _is_inside_left_bound(self, other.start[1])
             lower_part ==
                 IF has_lower
                 THEN Range(self.start, other.start,
                            from_bounds(_is_left_exclusive(self),
                                        _is_left_inclusive(other)))
                 ELSE NoneR
             has_upper ==
                 \/ (self.end = Absent /\ other.end # Absent)
                 \/ /\ self.end # Absent
                    /\ other.end # Absent
                    /\ ~ _is_inside_right_bound(other, self.end[1])
                    /\ _is_inside_right_bound(self, other.end[1])
             upper_part ==
                 IF has_upper
                 THEN Range(other.end, self.end,
                            from_bounds(_is_right_inclusive(other),
                                        _is_right_exclusive(self)))
                 ELSE NoneR
         IN  IF lower_part = ValueError \/ upper_part = ValueError
             THEN ValueError
             ELSE IF lower_part # NoneR THEN lower_part ELSE upper_part

difference(self, other) ==
    IF is_disjoint(self, other) THEN self
    ELSE LET has_lower ==
                 \/ (self.start = Absent /\ other.start # Absent)
                 \/ /\ self.start # Absent
                    /\ other.start # Absent
                    /\ ~ _is_inside_left_bound(other, self.start[1])
                    /\ _is_inside_left_bound(self, other.start[1])
             lower_part ==
                 IF has_lower
                 THEN Range(self.start, other.start,
                            from_bounds(_is_left_exclusive(self),
                                        _is_left_inclusive(other)))
                 ELSE NoneR
             has_upper ==
                 \/ (self.end = Absent /\ other.end # Absent)
                 \/ /\ self.end # Absent
                    /\ other.end # Absent
                    /\ ~ _is_inside_right_bound(other, self.end[1])
                    /\ _is_inside_right_bound(self, other.end[1])
             upper_part ==
                 IF has_upper
                 THEN Range(other.end, self.end,
                            from_bounds(_is_right_inclusive(other),
                                        _is_right_exclusive(self)))
                 ELSE NoneR
         IN  IF lower_part = ValueError \/ upper_part = ValueError
             THEN ValueError
             ELSE IF lower_part = NoneR /\ upper_part = NoneR THEN NoneR
             ELSE IF lower_part # NoneR /\ upper_part # NoneR
             THEN RangeSet(<< lower_part, upper_part >>)
             ELSE IF lower_part # NoneR THEN lower_part ELSE upper_part

(***************************************************************************)
(* RangeSet.  self is the record of a RangeSet, self.ranges its _ranges.   *)
(* A method that mutates the set gives the set as it is afterwards.        *)
(***************************************************************************)
KeyError == [kind |-> "KeyError"]

(* As add, but the item is appended to _ranges as it is. *)
add_appended(self, item) ==
    [kind |-> "RangeSet", ranges |-> Append(self.ranges, item)]

add(self, item) ==
    RangeSet(Append(self.ranges, item))

RECURSIVE flatten(_)
flatten(parts) ==
    IF parts = << >> THEN << >>
    ELSE LET d == parts[1]
         IN  IF d = NoneR THEN flatten(Tail(parts))
             ELSE IF d.kind = "RangeSet" THEN d.ranges \o flatten(Tail(parts))
             ELSE << d >> \o flatten(Tail(parts))

(* As discard, but a member that item overlaps is dropped whole. *)
discard_whole_members(self, item) ==
    RangeSet(SelectSeq(self.ranges, LAMBDA r : is_disjoint(r, item)))

discard(self, item) ==
    With([i \in 1..Len(self.ranges) |-> difference(self.ranges[i], item)],
         LAMBDA parts :
             IF \E i \in 1..Len(self.ranges) : parts[i] = ValueError
             THEN ValueError
             ELSE RangeSet(flatten(parts)))

(* As pop, but the element taken is the last one. *)
pop_last(self) ==
    IF self.ranges = << >> THEN KeyError
    ELSE LET elem == self.ranges[Len(self.ranges)]
         IN  With(discard(self, elem),
                  LAMBDA after :
                      IF after = ValueError THEN ValueError
                      ELSE [kind |-> "popped", elem |-> elem, set |-> after])

(* RangeSet.pop: the element returned and the set afterwards, or KeyError. *)
pop(self) ==
    IF self.ranges = << >> THEN KeyError
    ELSE LET elem == self.ranges[1]
         IN  With(discard(self, elem),
                  LAMBDA after :
                      IF after = ValueError THEN ValueError
                      ELSE [kind |-> "popped", elem |-> elem, set |-> after])

RangeSet_is_disjoint(self, other) ==
    \A i \in 1..Len(self.ranges), j \in 1..Len(other.ranges) :
        is_disjoint(self.ranges[i], other.ranges[j])

(* other is a Range or a RangeSet; the pairs come in itertools.product's
   order. *)
RangeSet_intersection(self, other) ==
    LET other_ranges == IF other.kind = "Range" THEN << other >> ELSE other.ranges
        n == Len(self.ranges)
        m == Len(other_ranges)
        pairs == [k \in 1..(n * m) |->
                     intersection(self.ranges[((k - 1) \div m) + 1],
                                  other_ranges[((k - 1) % m) + 1])]
    IN  IF \E k \in 1..(n * m) : pairs[k] = ValueError
        THEN ValueError
        ELSE RangeSet(SelectSeq(pairs, LAMBDA x : x # NoneR))

RangeSet_union(self, other) == RangeSet(self.ranges \o other.ranges)

(* As complement, but each gap takes its neighbours' boundaries as they are
   instead of negating them. *)
complement_unnegated(self) ==
    LET ranges == self.ranges
        n == Len(ranges)
        first ==
            IF ranges[1].start # Absent
            THEN << Range(Absent, ranges[1].start,
                          from_bounds(TRUE, _is_left_exclusive(ranges[1]))) >>
            ELSE << >>
        gaps == [i \in 1..(n - 1) |->
                    Range(ranges[i].end, ranges[i + 1].start,
                          from_bounds(_is_right_exclusive(ranges[i]),
                                      _is_left_exclusive(ranges[i + 1])))]
        last ==
            IF ranges[n].end # Absent
            THEN << Range(ranges[n].end, Absent,
                          from_bounds(_is_right_exclusive(ranges[n]), TRUE)) >>
            ELSE << >>
        all == first \o gaps \o last
    IN  IF ranges = << >> THEN RangeSet(<< Range(Absent, Absent, "()") >>)
        ELSE IF \E i \in 1..Len(all) : all[i] = ValueError THEN ValueError
        ELSE RangeSet(all)

complement(self) ==
    LET ranges == self.ranges
        n == Len(ranges)
        first ==
            IF ranges[1].start # Absent
            THEN << Range(Absent, ranges[1].start,
                          from_bounds(TRUE, ~ _is_left_exclusive(ranges[1]))) >>
            ELSE << >>
        gaps == [i \in 1..(n - 1) |->
                    Range(ranges[i].end, ranges[i + 1].start,
                          from_bounds(~ _is_right_exclusive(ranges[i]),
                                      ~ _is_left_exclusive(ranges[i + 1])))]
        last ==
            IF ranges[n].end # Absent
            THEN << Range(ranges[n].end, Absent,
                          from_bounds(~ _is_right_exclusive(ranges[n]), TRUE)) >>
            ELSE << >>
        all == first \o gaps \o last
    IN  IF ranges = << >> THEN RangeSet(<< Range(Absent, Absent, "()") >>)
        ELSE IF \E i \in 1..Len(all) : all[i] = ValueError THEN ValueError
        ELSE RangeSet(all)

(* As RangeSet_difference, but intersecting with other as it is. *)
RangeSet_difference_unnegated(self, other) ==
    RangeSet_intersection(self, other)

RangeSet_difference(self, other) ==
    With(complement(other),
         LAMBDA negated :
             IF negated = ValueError THEN ValueError
             ELSE RangeSet_intersection(self, negated))

(***************************************************************************)
(* Range.__setattr__ on an instance of one of the Range classes.  An       *)
(* instance is the record of its seven slots.                              *)
(***************************************************************************)
Classes ==
    { "Range", "FiniteRange", "HalfFiniteRange", "FiniteDatetimeRange",
      "FiniteDateRange" }

RangeSlots ==
    { "start", "end", "boundaries", "_is_left_exclusive", "_is_left_inclusive",
      "_is_right_exclusive", "_is_right_inclusive" }

(* type(self).__slots__: the class's own declaration, not the inherited one. *)
Slots(class) == IF class = "Range" THEN RangeSlots ELSE { }

AttributeError == [kind |-> "AttributeError"]

Instance(r) ==
    [start |-> r.start, end |-> r.end, boundaries |-> r.boundaries,
     _is_left_exclusive |-> _is_left_exclusive(r),
     _is_left_inclusive |-> _is_left_inclusive(r),
     _is_right_exclusive |-> _is_right_exclusive(r),
     _is_right_inclusive |-> _is_right_inclusive(r)]

(* The constructor of each class: the subclasses that fix the boundaries
   pass their own to Range.__init__. *)
New(class, start, end, boundaries) ==
    IF class \in { "HalfFiniteRange", "FiniteDatetimeRange" }
    THEN Range(start, end, "[)")
    ELSE IF class = "FiniteDateRange" THEN Range(start, end, "[]")
    ELSE Range(start, end, boundaries)

(* What self.name = value does: the exception raised, or the instance as it
   is afterwards.  A name that is not in type(self).__slots__ goes to
   object.__setattr__, which sets an inherited slot and rejects any other
   name, the classes having no __dict__. *)
__setattr__(class, self, name, value) ==
    IF name \in Slots(class) THEN AttributeError
    ELSE IF name \in RangeSlots THEN [self EXCEPT ![name] = value]
    ELSE AttributeError

(***************************************************************************)
(* State.                                                                  *)
(*   a, b    two Range values, the operands of the Range operations        *)
(*   acls, bcls  the classes a and b are instances of                      *)
(*   cls     the class of the instance obj                                 *)
(*   obj     an instance of cls, or None before it is constructed          *)
(*   before  obj, or rs, as it was when the last call was made             *)
(*   rs      the _ranges of a RangeSet                                     *)
(*   tree    the _tree of an IntervalTree, None before it is constructed   *)
(*   intervals  the Interval objects made so far; an object's identity is  *)
(*           its index                                                     *)
(*   held    the objects given to the tree and not removed since           *)
(*   op      the name of the last call, "idle" once its result is used     *)
(*   args    the arguments of the last call                                *)
(*   ret     what the last call returned, or the exception it raised       *)
(***************************************************************************)
VARIABLES a, b, acls, bcls, cls, obj, before, rs, tree, intervals, held, op, args, ret

vars == << a, b, acls, bcls, cls, obj, before, rs, tree, intervals, held, op, args, ret >>

rangeVars == << a, b, acls, bcls >>

objVars == << cls, obj, before >>

setVars == << rs >>

treeVars == << tree, intervals, held >>

(***************************************************************************)
(* Spec: the operations of Range on every pair of valid ranges.            *)
(***************************************************************************)
Init ==
    /\ a \in ValidRanges
    /\ b \in ValidRanges
    /\ acls = "Range"
    /\ bcls = "Range"
    /\ cls = "Range"
    /\ obj = NoneR
    /\ before = NoneR
    /\ rs = << >>
    /\ tree = NoneR
    /\ intervals = << >>
    /\ held = { }
    /\ op = "init"
    /\ args = << >>
    /\ ret = NoneR

IsDisjoint ==
    /\ op' = "is_disjoint"
    /\ ret' = Bool(is_disjoint(a, b))
    /\ UNCHANGED << rangeVars, treeVars, objVars, setVars, args >>

Intersection ==
    /\ op' = "intersection"
    /\ ret' = intersection(a, b)
    /\ UNCHANGED << rangeVars, treeVars, objVars, setVars, args >>

Union ==
    /\ op' = "union"
    /\ ret' = union(a, b)
    /\ UNCHANGED << rangeVars, treeVars, objVars, setVars, args >>

Difference ==
    /\ op' = "difference"
    /\ ret' = difference(a, b)
    /\ UNCHANGED << rangeVars, treeVars, objVars, setVars, args >>

LessThan ==
    /\ op' = "lt"
    /\ ret' = Bool(__lt__(a, b))
    /\ UNCHANGED << rangeVars, treeVars, objVars, setVars, args >>

Next ==
    \/ LessThan
    \/ IsDisjoint
    \/ Intersection
    \/ Union
    \/ Difference

Spec == Init /\ [][Next]_vars

(***************************************************************************)
(* SpecObj: constructing an instance of each class from every combination  *)
(* of arguments, and assigning to its attributes.                          *)
(***************************************************************************)
AttrNames == { "start", "end", "boundaries", "_is_left_exclusive", "something_else" }

AttrValues(name) ==
    IF name \in { "start", "end" } THEN OptEndPoints
    ELSE IF name = "boundaries" THEN RangeBoundaries
    ELSE BOOLEAN

InitObj ==
    /\ a = continuum
    /\ b = continuum
    /\ acls = "Range"
    /\ bcls = "Range"
    /\ cls \in Classes
    /\ obj = NoneR
    /\ before = NoneR
    /\ rs = << >>
    /\ tree = NoneR
    /\ intervals = << >>
    /\ held = { }
    /\ op = "init"
    /\ args \in OptEndPoints \X OptEndPoints \X RangeBoundaries
    /\ ret = NoneR

Construct ==
    /\ op = "init"
    /\ op' = "new"
    /\ ret' = New(cls, args[1], args[2], args[3])
    /\ obj' = IF ret' = ValueError THEN NoneR ELSE Instance(ret')
    /\ before' = NoneR
    /\ UNCHANGED << rangeVars, treeVars, setVars, cls, args >>

SetAttr(name, value) ==
    /\ op # "init"
    /\ obj # NoneR
    /\ op' = "setattr"
    /\ args' = << name >>
    /\ before' = obj
    /\ LET outcome == __setattr__(cls, obj, name, value)
       IN  IF outcome = AttributeError
           THEN ret' = AttributeError /\ obj' = obj
           ELSE ret' = NoneR /\ obj' = outcome
    /\ UNCHANGED << rangeVars, treeVars, setVars, cls >>

NextObj ==
    \/ Construct
    \/ \E name \in AttrNames : \E value \in AttrValues(name) : SetAttr(name, value)

SpecObj == InitObj /\ [][NextObj]_vars

(***************************************************************************)
(* SpecSet: one RangeSet, constructed from an iterable of ranges and then  *)
(* called in any order.  A call is made when the result of the last one    *)
(* has been used (op is "idle"); add, discard and pop change the set,      *)
(* the other methods return a new one and leave the set as it is.          *)
(***************************************************************************)
MaxSetPoint == 2

MaxSource == 2

SetRanges ==
    { Range(s, e, bd) : s \in { Absent } \cup { Some(2 * k) : k \in 0..MaxSetPoint },
                        e \in { Absent } \cup { Some(2 * k) : k \in 0..MaxSetPoint },
                        bd \in RangeBoundaries } \ { ValueError }

Sources == UNION { [1..n -> SetRanges] : n \in 0..MaxSource }

OtherSets == { RangeSet(source) : source \in Sources } \ { ValueError }

Self == [kind |-> "RangeSet", ranges |-> rs]

InitSet ==
    /\ a = continuum
    /\ b = continuum
    /\ acls = "Range"
    /\ bcls = "Range"
    /\ cls = "Range"
    /\ obj = NoneR
    /\ before = NoneR
    /\ rs = << >>
    /\ tree = NoneR
    /\ intervals = << >>
    /\ held = { }
    /\ op = "init"
    /\ args = << >>
    /\ ret = NoneR

SetNew ==
    /\ op = "init"
    /\ \E source \in Sources :
           /\ ret' = RangeSet(source)
           /\ rs' = IF ret' = ValueError THEN rs ELSE ret'.ranges
    /\ op' = "new"
    /\ args' = << >>
    /\ before' = rs
    /\ UNCHANGED << rangeVars, treeVars, cls, obj >>

SetAdd ==
    /\ op = "idle"
    /\ \E item \in SetRanges :
           /\ args' = << item >>
           /\ \E after \in { add(Self, item) } :
                  IF after = ValueError
                  THEN ret' = ValueError /\ rs' = rs
                  ELSE ret' = NoneR /\ rs' = after.ranges
    /\ op' = "add"
    /\ before' = rs
    /\ UNCHANGED << rangeVars, treeVars, cls, obj >>

SetDiscard ==
    /\ op = "idle"
    /\ \E item \in SetRanges :
           /\ args' = << item >>
           /\ \E after \in { discard(Self, item) } :
                  IF after = ValueError
                  THEN ret' = ValueError /\ rs' = rs
                  ELSE ret' = NoneR /\ rs' = after.ranges
    /\ op' = "discard"
    /\ before' = rs
    /\ UNCHANGED << rangeVars, treeVars, cls, obj >>

SetPop ==
    /\ op = "idle"
    /\ op' = "pop"
    /\ args' = << >>
    /\ \E popped \in { pop(Self) } :
           IF popped.kind = "popped"
           THEN ret' = popped.elem /\ rs' = popped.set.ranges
           ELSE ret' = popped /\ rs' = rs
    /\ before' = rs
    /\ UNCHANGED << rangeVars, treeVars, cls, obj >>

SetUnion ==
    /\ op = "idle"
    /\ \E other \in OtherSets :
           /\ args' = << other >>
           /\ ret' = RangeSet_union(Self, other)
    /\ op' = "set_union"
    /\ before' = rs
    /\ UNCHANGED << rangeVars, treeVars, cls, obj, setVars >>

SetIntersection ==
    /\ op = "idle"
    /\ \E other \in OtherSets \cup SetRanges :
           /\ args' = << other >>
           /\ ret' = RangeSet_intersection(Self, other)
    /\ op' = "set_intersection"
    /\ before' = rs
    /\ UNCHANGED << rangeVars, treeVars, cls, obj, setVars >>

SetComplement ==
    /\ op = "idle"
    /\ op' = "complement"
    /\ args' = << >>
    /\ ret' = complement(Self)
    /\ before' = rs
    /\ UNCHANGED << rangeVars, treeVars, cls, obj, setVars >>

SetDifference ==
    /\ op = "idle"
    /\ \E other \in OtherSets :
           /\ args' = << other >>
           /\ ret' = RangeSet_difference(Self, other)
    /\ op' = "set_difference"
    /\ before' = rs
    /\ UNCHANGED << rangeVars, treeVars, cls, obj, setVars >>

(* The caller has used what the last call returned. *)
Return ==
    /\ op \notin { "init", "idle" }
    /\ op' = "idle"
    /\ args' = << >>
    /\ ret' = NoneR
    /\ before' = NoneR
    /\ UNCHANGED << rangeVars, treeVars, cls, obj, setVars >>

NextSet ==
    \/ SetNew
    \/ SetAdd
    \/ SetDiscard
    \/ SetPop
    \/ SetUnion
    \/ SetIntersection
    \/ SetComplement
    \/ SetDifference
    \/ Return

SpecSet == InitSet /\ [][NextSet]_vars

(***************************************************************************)
(* xocto.intervaltree: Interval and IntervalTree.                          *)
(*                                                                         *)
(* IntervalTree keeps its intervals in self._tree, an IntervalTree of the  *)
(* intervaltree package, and every method is a call or two on it.  The     *)
(* package is a dependency and not part of the source tree; the operators  *)
(* named _tree_... give what the package's IntervalTree does on each call  *)
(* the wrapper makes: its set all_intervals of Interval(begin, end, data)  *)
(* tuples, and its boundary_table, which counts for every boundary value   *)
(* the intervals that begin or end there.  The search tree itself is left  *)
(* out; a query is worked out from all_intervals and boundary_table in the *)
(* way the package does it.                                                *)
(*                                                                         *)
(* Boundaries are the even numbers 0, 2, .., 2*MaxBoundary and queries are *)
(* made at every integer from 0 to 2*MaxBoundary.  An Interval object is   *)
(* known by its place in the sequence intervals.                           *)
(***************************************************************************)
Boundaries == { 2 * k : k \in 0..MaxBoundary }

QueryPoints == 0..(2 * MaxBoundary)

Data == { "red" }

(* Interval.__init__: the object made, or ValueError. *)
Interval(start, end, data) ==
    IF start > end THEN ValueError
    ELSE [_start |-> start, _end |-> end, _data |-> data, _interval |-> NoneR]

(* As Interval.__eq__, but comparing the fields. *)
Interval_eq_by_fields(self, other) ==
    /\ intervals[self]._start = intervals[other]._start
    /\ intervals[self]._end = intervals[other]._end
    /\ intervals[self]._data = intervals[other]._data

(* Interval.__eq__: self and other are identities. *)
Interval___eq__(self, other) == other = self

(* intervaltree.Interval(begin, end, data), data being the identity of the
   xocto Interval; two of them are equal when begin, end and data are. *)
_tree_Interval(begin, end, data) ==
    [kind |-> "_interval", begin |-> begin, end |-> end, data |-> data]

_tree_Interval_eq(x, y) ==
    /\ x.begin = y.begin
    /\ x.end = y.end
    /\ Interval___eq__(x.data, y.data)

_tree_is_null(iv) == iv.begin >= iv.end

_tree_empty == [all_intervals |-> { }, boundary_table |-> << >>]

_tree_contains(t, iv) ==
    /\ iv # NoneR
    /\ \E x \in t.all_intervals : _tree_Interval_eq(x, iv)

_add_boundary(table, k) ==
    IF k \in DOMAIN table THEN [table EXCEPT ![k] = @ + 1]
    ELSE [x \in DOMAIN table \cup { k } |-> IF x = k THEN 1 ELSE table[x]]

_remove_boundary(table, k) ==
    IF table[k] = 1 THEN [x \in DOMAIN table \ { k } |-> table[x]]
    ELSE [table EXCEPT ![k] = @ - 1]

(* self._tree.add(iv): the tree afterwards, or ValueError for an interval
   with begin >= end. *)
_tree_add(t, iv) ==
    IF _tree_contains(t, iv) THEN t
    ELSE IF _tree_is_null(iv) THEN ValueError
    ELSE [all_intervals |-> t.all_intervals \cup { iv },
          boundary_table |->
              _add_boundary(_add_boundary(t.boundary_table, iv.begin), iv.end)]

(* As _tree_remove, but the boundary table is left as it is. *)
_tree_remove_keeping_boundaries(t, iv) ==
    IF ~ _tree_contains(t, iv) THEN ValueError
    ELSE [all_intervals |->
              { x \in t.all_intervals : ~ _tree_Interval_eq(x, iv) },
          boundary_table |-> t.boundary_table]

(* self._tree.remove(iv): the tree afterwards, or ValueError when iv is not
   in it. *)
_tree_remove(t, iv) ==
    IF ~ _tree_contains(t, iv) THEN ValueError
    ELSE [all_intervals |->
              { x \in t.all_intervals : ~ _tree_Interval_eq(x, iv) },
          boundary_table |->
              _remove_boundary(_remove_boundary(t.boundary_table, iv.begin),
                               iv.end)]

(* intervaltree.IntervalTree(ivs): the tree of a list of intervals, or
   ValueError when one of them has begin >= end. *)
RECURSIVE _tree_new(_, _)
_tree_new(t, ivs) ==
    IF ivs = << >> THEN t
    ELSE LET added == _tree_add(t, ivs[1])
         IN  IF added = ValueError THEN ValueError
             ELSE _tree_new(added, Tail(ivs))

_tree_is_empty(t) == t.all_intervals = { }

_tree_len(t) == Cardinality(t.all_intervals)

Min(S) == CHOOSE x \in S : \A y \in S : x <= y

Max(S) == CHOOSE x \in S : \A y \in S : y <= x

_tree_begin(t) ==
    IF DOMAIN t.boundary_table = { } THEN 0 ELSE Min(DOMAIN t.boundary_table)

_tree_end(t) ==
    IF DOMAIN t.boundary_table = { } THEN 0 ELSE Max(DOMAIN t.boundary_table)

(* self._tree.at(p): the intervals the search reports for the point p. *)
_tree_at(t, p) == { iv \in t.all_intervals : iv.begin <= p /\ p < iv.end }

(* As _tree_overlap, but only the intervals at the point begin. *)
_tree_overlap_at_begin(t, begin, end) ==
    IF t.all_intervals = { } THEN { }
    ELSE IF begin >= end THEN { }
    ELSE _tree_at(t, begin)

(* self._tree.overlap(begin, end): the intervals at begin, and those at
   every boundary the table holds from begin up to, not including, end. *)
_tree_overlap(t, begin, end) ==
    IF t.all_intervals = { } THEN { }
    ELSE IF begin >= end THEN { }
    ELSE _tree_at(t, begin) \cup
         UNION { _tree_at(t, k) :
                     k \in { x \in DOMAIN t.boundary_table :
                                 begin <= x /\ x < end } }

(* sorted(ivs) for a set of intervaltree Intervals: by begin, then end; the
   xocto Intervals that are their data have no order, and intervals of the
   same begin and end come in any order.  The lists sorted() may give. *)
_tree_sorted(ivs) ==
    { l \in [1..Cardinality(ivs) -> ivs] :
          /\ \A i, j \in 1..Cardinality(ivs) : i # j => l[i] # l[j]
          /\ \A i, j \in 1..Cardinality(ivs) :
                 i < j => \/ l[i].begin < l[j].begin
                          \/ (l[i].begin = l[j].begin /\ l[i].end <= l[j].end) }

(* [interval.data for interval in l] *)
_data(l) == [i \in 1..Len(l) |-> l[i].data]

(***************************************************************************)
(* SpecTree: Interval objects are made, one IntervalTree is constructed    *)
(* from some of them, and its methods are called in any order, each when   *)
(* the result of the last call has been used.                              *)
(***************************************************************************)
IntervalRef(i) == [kind |-> "Interval", id |-> i]

Value(v) == [kind |-> "value", value |-> v]

(* The intervaltree Interval the wrapper makes for the object i. *)
interval_tree_interval(i) ==
    _tree_Interval(intervals[i]._start, intervals[i]._end, i)

InitTree ==
    /\ a = continuum
    /\ b = continuum
    /\ acls = "Range"
    /\ bcls = "Range"
    /\ cls = "Range"
    /\ obj = NoneR
    /\ before = NoneR
    /\ rs = << >>
    /\ tree = NoneR
    /\ intervals = << >>
    /\ held = { }
    /\ op = "idle"
    /\ args = << >>
    /\ ret = NoneR

IntervalNew ==
    /\ op = "idle"
    /\ Len(intervals) < MaxIntervals
    /\ \E start \in Boundaries, end \in Boundaries, data \in Data :
           /\ args' = << start, end, data >>
           /\ LET made == Interval(start, end, data)
              IN  IF made = ValueError
                  THEN ret' = ValueError /\ intervals' = intervals
                  ELSE /\ intervals' = Append(intervals, made)
                       /\ ret' = IntervalRef(Len(intervals) + 1)
    /\ op' = "Interval"
    /\ UNCHANGED << rangeVars, objVars, setVars, tree, held >>

(* IntervalTree.__init__(given), given being a list or a single-pass
   iterator of the intervals.  (intervals or []) is walked twice: the first
   walk makes the intervaltree Intervals, the second gives every interval
   of the zip its _interval.  A list is walked in full both times; an
   iterator is used up by the first walk and the zip has no pairs.  Then
   the tree is made, or intervaltree raises ValueError. *)
IntervalTree___init__(kind, given) ==
    [intervals |->
         [i \in 1..Len(intervals) |->
             IF kind = "list" /\ \E k \in 1..Len(given) : given[k] = i
             THEN [intervals[i] EXCEPT !._interval = interval_tree_interval(i)]
             ELSE intervals[i]],
     _tree |->
         _tree_new(_tree_empty,
                   [k \in 1..Len(given) |-> interval_tree_interval(given[k])])]

(* IntervalTree(given) for a list; when it raises there is no IntervalTree. *)
TreeNew ==
    /\ op = "idle"
    /\ tree = NoneR
    /\ \E n \in 0..MaxGiven :
       \E given \in [1..n -> 1..Len(intervals)] :
           LET made == IntervalTree___init__("list", given)
           IN  /\ args' = << given, "list" >>
               /\ intervals' = made.intervals
               /\ IF made._tree = ValueError
                  THEN ret' = ValueError /\ tree' = tree /\ held' = held
                  ELSE /\ ret' = NoneR
                       /\ tree' = made._tree
                       /\ held' = { given[k] : k \in 1..n }
    /\ op' = "IntervalTree"
    /\ UNCHANGED << rangeVars, objVars, setVars >>

(* IntervalTree(given) for a list or an iterator. *)
TreeLoad ==
    /\ op = "idle"
    /\ tree = NoneR
    /\ \E kind \in { "list", "iterator" }, n \in 0..MaxGiven :
       \E given \in [1..n -> 1..Len(intervals)] :
           LET made == IntervalTree___init__(kind, given)
           IN  /\ args' = << given, kind >>
               /\ intervals' = made.intervals
               /\ IF made._tree = ValueError
                  THEN ret' = ValueError /\ tree' = tree /\ held' = held
                  ELSE /\ ret' = NoneR
                       /\ tree' = made._tree
                       /\ held' = { given[k] : k \in 1..n }
    /\ op' = "IntervalTree"
    /\ UNCHANGED << rangeVars, objVars, setVars >>

TreeInsert ==
    /\ op = "idle"
    /\ tree # NoneR
    /\ \E i \in 1..Len(intervals) :
           /\ args' = << i >>
           /\ intervals' =
                  [intervals EXCEPT ![i]._interval = interval_tree_interval(i)]
           /\ LET added == _tree_add(tree, interval_tree_interval(i))
              IN  IF added = ValueError
                  THEN ret' = ValueError /\ tree' = tree /\ held' = held
                  ELSE /\ ret' = IntervalRef(i)
                       /\ tree' = added
                       /\ held' = held \cup { i }
    /\ op' = "insert"
    /\ UNCHANGED << rangeVars, objVars, setVars >>

(* remove: the ValueError of self._tree.remove is caught. *)
TreeRemove ==
    /\ op = "idle"
    /\ tree # NoneR
    /\ \E i \in 1..Len(intervals) :
           /\ args' = << i >>
           /\ LET removed == _tree_remove(tree, intervals[i]._interval)
              IN  tree' = IF removed = ValueError THEN tree ELSE removed
           /\ held' = held \ { i }
    /\ ret' = NoneR
    /\ op' = "remove"
    /\ UNCHANGED << rangeVars, objVars, setVars, intervals >>

TreeRemoveAll ==
    /\ op = "idle"
    /\ tree # NoneR
    /\ tree' = _tree_empty
    /\ held' = { }
    /\ args' = << >>
    /\ ret' = NoneR
    /\ op' = "remove_all"
    /\ UNCHANGED << rangeVars, objVars, setVars, intervals >>

TreeStart ==
    /\ op = "idle"
    /\ tree # NoneR
    /\ args' = << >>
    /\ ret' = IF _tree_is_empty(tree) THEN NoneR ELSE Value(_tree_begin(tree))
    /\ op' = "start"
    /\ UNCHANGED << rangeVars, objVars, setVars, treeVars >>

TreeEnd ==
    /\ op = "idle"
    /\ tree # NoneR
    /\ args' = << >>
    /\ ret' = IF _tree_is_empty(tree) THEN NoneR ELSE Value(_tree_end(tree))
    /\ op' = "end"
    /\ UNCHANGED << rangeVars, objVars, setVars, treeVars >>

TreeLen ==
    /\ op = "idle"
    /\ tree # NoneR
    /\ args' = << >>
    /\ ret' = Value(_tree_len(tree))
    /\ op' = "len"
    /\ UNCHANGED << rangeVars, objVars, setVars, treeVars >>

TreeIsEmpty ==
    /\ op = "idle"
    /\ tree # NoneR
    /\ args' = << >>
    /\ ret' = Bool(_tree_is_empty(tree))
    /\ op' = "is_empty"
    /\ UNCHANGED << rangeVars, objVars, setVars, treeVars >>

TreeAll ==
    /\ op = "idle"
    /\ tree # NoneR
    /\ args' = << >>
    /\ \E l \in _tree_sorted(tree.all_intervals) : ret' = List(_data(l))
    /\ op' = "all"
    /\ UNCHANGED << rangeVars, objVars, setVars, treeVars >>

TreeOverlapping ==
    /\ op = "idle"
    /\ tree # NoneR
    /\ \E start \in QueryPoints, end \in QueryPoints :
           /\ args' = << start, end >>
           /\ \E l \in _tree_sorted(_tree_overlap(tree, start, end)) :
                  ret' = List(_data(l))
    /\ op' = "overlapping"
    /\ UNCHANGED << rangeVars, objVars, setVars, treeVars >>

TreeOverlappingPoint ==
    /\ op = "idle"
    /\ tree # NoneR
    /\ \E point \in QueryPoints :
           /\ args' = << point >>
           /\ \E l \in _tree_sorted(_tree_at(tree, point)) :
                  ret' = List(_data(l))
    /\ op' = "overlapping_point"
    /\ UNCHANGED << rangeVars, objVars, setVars, treeVars >>

NextTree ==
    \/ IntervalNew
    \/ TreeNew
    \/ TreeInsert
    \/ TreeRemove
    \/ TreeRemoveAll
    \/ TreeStart
    \/ TreeEnd
    \/ TreeLen
    \/ TreeIsEmpty
    \/ TreeAll
    \/ TreeOverlapping
    \/ TreeOverlappingPoint
    \/ Return

SpecTree == InitTree /\ [][NextTree]_vars

(***************************************************************************)
(* SpecLoad: a tree loaded by its constructor from a list or from an        *)
(* iterator, then insert, remove, len and all.                             *)
(***************************************************************************)
NextLoad ==
    \/ IntervalNew
    \/ TreeLoad
    \/ TreeInsert
    \/ TreeRemove
    \/ TreeLen
    \/ TreeAll
    \/ Return

SpecLoad == InitTree /\ [][NextLoad]_vars

(***************************************************************************)
(* The Range classes as Python dispatches on them.  A range is a Range     *)
(* record as before and its class is carried beside it.  FiniteRange and   *)
(* HalfFiniteRange extend Range, FiniteDatetimeRange and FiniteDateRange   *)
(* extend FiniteRange.  Dates and datetimes are the integers 0..MaxDate;   *)
(* 0 is date.min and MaxDate is date.max, and a day is 1.                  *)
(***************************************************************************)
Dates == 0..MaxDate

OptDates == { Absent } \cup { Some(d) : d \in Dates }

OverflowError == [kind |-> "OverflowError"]

AssertionError == [kind |-> "AssertionError"]

IsError(r) == r.kind \in { "ValueError", "OverflowError", "AssertionError" }

(* issubclass(c, d) for two different classes. *)
IsSubclass(c, d) ==
    \/ (d = "Range" /\ c # "Range")
    \/ (d = "FiniteRange" /\ c \in { "FiniteDatetimeRange", "FiniteDateRange" })

(* A range as an instance of the class c. *)
Typed(c, r) ==
    IF r.kind = "Range"
    THEN [kind |-> "Range", class |-> c, start |-> r.start, end |-> r.end,
          boundaries |-> r.boundaries]
    ELSE r

(* The start, end and boundaries of an instance. *)
Plain(r) ==
    IF r.kind = "Range"
    THEN [kind |-> "Range", start |-> r.start, end |-> r.end,
          boundaries |-> r.boundaries]
    ELSE r

(* FiniteDatetimeRange.__lt__: the starts alone. *)
FiniteDatetimeRange___lt__(self, other) ==
    IF other.start = Absent THEN FALSE
    ELSE self.start[1] < other.start[1]

(* type(self).__lt__(self, other) for self of class c. *)
lt_method(c, self, other) ==
    IF c = "FiniteDatetimeRange" THEN FiniteDatetimeRange___lt__(self, other)
    ELSE __lt__(self, other)

(* The __gt__ functools.total_ordering gives Range and its subclasses. *)
_gt_from_lt(c, self, other) ==
    ~ lt_method(c, self, other) /\ ~ __eq__(self, other)

(* self < other: when other's class is a subclass of self's, Python asks
   other.__gt__(self) first. *)
less_than(sc, self, oc, other) ==
    IF IsSubclass(oc, sc) THEN _gt_from_lt(oc, other, self)
    ELSE lt_method(sc, self, other)

(* d + timedelta(days=n): the date, or OverflowError outside date.min to
   date.max. *)
date_add(d, n) ==
    IF d + n \in Dates THEN Value(d + n) ELSE OverflowError

(* As FiniteDateRange_is_disjoint, but other is not extended. *)
FiniteDateRange_is_disjoint_unextended(self, other) ==
    Bool(is_disjoint(self, other))

(* As FiniteDateRange_is_disjoint, but OverflowError is not caught. *)
FiniteDateRange_is_disjoint_uncaught(self, other) ==
    LET before_start ==
            IF _is_left_inclusive(other) THEN date_add(other.start[1], 0 - 1)
            ELSE NoneR
        after_end ==
            IF _is_right_inclusive(other) THEN date_add(other.end[1], 1)
            ELSE NoneR
    IN  IF before_start = OverflowError \/ after_end = OverflowError
        THEN OverflowError
        ELSE LET other_start ==
                     IF before_start = NoneR THEN other.start
                     ELSE Some(before_start.value)
                 other_end ==
                     IF after_end = NoneR THEN other.end
                     ELSE Some(after_end.value)
                 extended == Range(other_start, other_end, other.boundaries)
             IN  IF extended = ValueError THEN ValueError
                 ELSE Bool(is_disjoint(self, extended))

(* FiniteDateRange.is_disjoint: other is extended by a day at each of its
   inclusive bounds, which stays where it is when the day overflows. *)
FiniteDateRange_is_disjoint(self, other) ==
    LET before_start ==
            IF _is_left_inclusive(other) THEN date_add(other.start[1], 0 - 1)
            ELSE NoneR
        after_end ==
            IF _is_right_inclusive(other) THEN date_add(other.end[1], 1)
            ELSE NoneR
        other_start ==
            IF before_start \in { NoneR, OverflowError } THEN other.start
            ELSE Some(before_start.value)
        other_end ==
            IF after_end \in { NoneR, OverflowError } THEN other.end
            ELSE Some(after_end.value)
        extended == Range(other_start, other_end, other.boundaries)
    IN  IF extended = ValueError THEN ValueError
        ELSE Bool(is_disjoint(self, extended))

(* self.is_disjoint(other) for self of class c: a bool, or the exception. *)
is_disjoint_of(c, self, other) ==
    IF c = "FiniteDateRange" THEN FiniteDateRange_is_disjoint(self, other)
    ELSE Bool(is_disjoint(self, other))

(* As Range_intersection, but the end is always the higher range's. *)
Range_intersection_end_of_higher(sc, self, oc, other) ==
    LET dis == is_disjoint_of(sc, self, other)
    IN  IF dis.kind # "bool" THEN dis
        ELSE IF dis.value THEN NoneR
        ELSE LET first == less_than(sc, self, oc, other)
                 range_l == IF first THEN self ELSE other
                 range_r == IF first THEN other ELSE self
             IN  Range(range_r.start, range_r.end,
                       from_bounds(_is_left_exclusive(range_r),
                                   _is_right_exclusive(range_r)))

(* Range.intersection for self of class sc and other of class oc: the
   is_disjoint and the < it calls are the classes' own. *)
Range_intersection(sc, self, oc, other) ==
    LET dis == is_disjoint_of(sc, self, other)
    IN  IF dis.kind # "bool" THEN dis
        ELSE IF dis.value THEN NoneR
        ELSE LET first == less_than(sc, self, oc, other)
                 range_l == IF first THEN self ELSE other
                 range_r == IF first THEN other ELSE self
                 use_l == /\ range_l.end # Absent
                          /\ _is_inside_right_bound(range_r, range_l.end[1])
                 end == IF use_l THEN range_l.end ELSE range_r.end
                 right_exclusive ==
                     IF use_l THEN _is_right_exclusive(range_l)
                     ELSE _is_right_exclusive(range_r)
             IN  Range(range_r.start, end,
                       from_bounds(_is_left_exclusive(range_r), right_exclusive))

(* Range.union for self of class sc and other of class oc. *)
Range_union(sc, self, oc, other) ==
    LET first == less_than(sc, self, oc, other)
        range_l == IF first THEN self ELSE other
        range_r == IF first THEN other ELSE self
        lc == IF first THEN sc ELSE oc
        dis == is_disjoint_of(lc, range_l, range_r)
    IN  IF dis.kind # "bool" THEN dis
        ELSE IF /\ dis.value
                /\ ~ (/\ range_l.end = range_r.start
                      /\ (\/ _is_right_inclusive(range_l)
                          \/ _is_left_inclusive(range_r)))
        THEN NoneR
        ELSE LET use_l == /\ range_r.end # Absent
                          /\ _is_inside_right_bound(range_l, range_r.end[1])
                 end == IF use_l THEN range_l.end ELSE range_r.end
                 right_exclusive ==
                     IF use_l THEN _is_right_exclusive(range_l)
                     ELSE _is_right_exclusive(range_r)
             IN  Range(range_l.start, end,
                       from_bounds(_is_left_exclusive(range_l), right_exclusive))

(* cast(..., super().intersection(other)): the object is not changed. *)
cast(r) == Typed("Range", r)

(* FiniteRange.intersection and HalfFiniteRange.intersection. *)
FiniteRange_intersection(sc, self, oc, other) ==
    cast(Range_intersection(sc, self, oc, other))

Min2(x, y) == IF x <= y THEN x ELSE y

Max2(x, y) == IF x >= y THEN x ELSE y

(* As FiniteDatetimeRange_intersection without the path for two
   FiniteDatetimeRanges. *)
FiniteDatetimeRange_intersection_generic(self, oc, other) ==
    LET base == Range_intersection("FiniteDatetimeRange", self, oc, other)
    IN  IF base.kind # "Range" THEN base
        ELSE IF base.boundaries # "[)" THEN AssertionError
        ELSE Typed("FiniteDatetimeRange",
                   New("FiniteDatetimeRange", base.start, base.end, "[)"))

(* As FiniteDatetimeRange_intersection, but the later end is taken. *)
FiniteDatetimeRange_intersection_later_end(self, oc, other) ==
    IF oc = "FiniteDatetimeRange"
    THEN LET first == self.start[1] < other.start[1]
             left == IF first THEN self ELSE other
             right == IF first THEN other ELSE self
         IN  IF left.end[1] <= right.start[1] THEN NoneR
             ELSE Typed("FiniteDatetimeRange",
                        New("FiniteDatetimeRange", right.start,
                            Some(Max2(right.end[1], left.end[1])), "[)"))
    ELSE FiniteDatetimeRange_intersection_generic(self, oc, other)

(* FiniteDatetimeRange.intersection. *)
FiniteDatetimeRange_intersection(self, oc, other) ==
    IF oc = "FiniteDatetimeRange"
    THEN LET first == self.start[1] < other.start[1]
             left == IF first THEN self ELSE other
             right == IF first THEN other ELSE self
         IN  IF left.end[1] <= right.start[1] THEN NoneR
             ELSE Typed("FiniteDatetimeRange",
                        New("FiniteDatetimeRange", right.start,
                            Some(Min2(right.end[1], left.end[1])), "[)"))
    ELSE FiniteDatetimeRange_intersection_generic(self, oc, other)

(* FiniteDatetimeRange.union. *)
FiniteDatetimeRange_union(self, oc, other) ==
    IF oc = "FiniteDatetimeRange"
    THEN LET first == self.start[1] < other.start[1]
             left == IF first THEN self ELSE other
             right == IF first THEN other ELSE self
         IN  IF left.end[1] < right.start[1] THEN NoneR
             ELSE Typed("FiniteDatetimeRange",
                        New("FiniteDatetimeRange", left.start,
                            Some(Max2(left.end[1], right.end[1])), "[)"))
    ELSE LET base == Range_union("FiniteDatetimeRange", self, oc, other)
         IN  IF oc = "HalfFiniteRange" /\ base.kind = "Range"
             THEN Typed("HalfFiniteRange",
                        New("HalfFiniteRange", base.start, base.end, "[)"))
             ELSE Typed("Range", base)

(* FiniteDateRange.intersection: a ValueError of the base method is None. *)
FiniteDateRange_intersection(self, oc, other) ==
    LET base == Range_intersection("FiniteDateRange", self, oc, other)
    IN  IF base = ValueError THEN NoneR
        ELSE IF base.kind # "Range" THEN base
        ELSE IF base.boundaries # "[]" THEN AssertionError
        ELSE Typed("FiniteDateRange",
                   New("FiniteDateRange", base.start, base.end, "[]"))

(* FiniteDateRange.union. *)
FiniteDateRange_union(self, oc, other) ==
    LET base == Range_union("FiniteDateRange", self, oc, other)
    IN  IF base = ValueError THEN NoneR
        ELSE IF base.kind # "Range" THEN base
        ELSE IF base.boundaries # "[]" THEN AssertionError
        ELSE IF base.start = Absent \/ base.end = Absent THEN AssertionError
        ELSE Typed("FiniteDateRange",
                   New("FiniteDateRange", base.start, base.end, "[]"))

(* self.intersection(other): the method of self's class. *)
intersection_of(sc, self, oc, other) ==
    CASE sc = "FiniteDatetimeRange" ->
             FiniteDatetimeRange_intersection(self, oc, other)
      [] sc = "FiniteDateRange" ->
             FiniteDateRange_intersection(self, oc, other)
      [] sc \in { "FiniteRange", "HalfFiniteRange" } ->
             FiniteRange_intersection(sc, self, oc, other)
      [] OTHER -> Typed("Range", Range_intersection(sc, self, oc, other))

(* self.union(other): the method of self's class. *)
union_of(sc, self, oc, other) ==
    CASE sc = "FiniteDatetimeRange" ->
             FiniteDatetimeRange_union(self, oc, other)
      [] sc = "FiniteDateRange" ->
             FiniteDateRange_union(self, oc, other)
      [] OTHER -> Typed("Range", Range_union(sc, self, oc, other))

(***************************************************************************)
(* SpecTyped: the four operations on every pair of instances of the five   *)
(* classes over the dates 0..MaxDate.  A FiniteDateRange holds dates and a *)
(* FiniteDatetimeRange datetimes, so the two are never paired.             *)
(***************************************************************************)
DateRanges ==
    { Range(s, e, bd) : s \in OptDates, e \in OptDates, bd \in RangeBoundaries }
        \ { ValueError }

(* The ranges the class c constructs and its annotations allow. *)
Instances(c) ==
    CASE c = "Range" -> DateRanges
      [] c = "FiniteRange" ->
             { r \in DateRanges : r.start # Absent /\ r.end # Absent }
      [] c = "HalfFiniteRange" ->
             { r \in DateRanges : r.start # Absent /\ r.boundaries = "[)" }
      [] c = "FiniteDatetimeRange" ->
             { r \in DateRanges :
                 r.start # Absent /\ r.end # Absent /\ r.boundaries = "[)" }
      [] c = "FiniteDateRange" ->
             { r \in DateRanges :
                 r.start # Absent /\ r.end # Absent /\ r.boundaries = "[]" }

InitTyped ==
    /\ acls \in Classes
    /\ bcls \in Classes
    /\ { acls, bcls } # { "FiniteDateRange", "FiniteDatetimeRange" }
    /\ a \in Instances(acls)
    /\ b \in Instances(bcls)
    /\ cls = "Range"
    /\ obj = NoneR
    /\ before = NoneR
    /\ rs = << >>
    /\ tree = NoneR
    /\ intervals = << >>
    /\ held = { }
    /\ op = "init"
    /\ args = << >>
    /\ ret = NoneR

TypedLessThan ==
    /\ op' = "lt"
    /\ ret' = Bool(less_than(acls, a, bcls, b))
    /\ UNCHANGED << rangeVars, treeVars, objVars, setVars, args >>

TypedIsDisjoint ==
    /\ op' = "is_disjoint"
    /\ ret' = is_disjoint_of(acls, a, b)
    /\ UNCHANGED << rangeVars, treeVars, objVars, setVars, args >>

TypedIntersection ==
    /\ op' = "intersection"
    /\ ret' = intersection_of(acls, a, bcls, b)
    /\ UNCHANGED << rangeVars, treeVars, objVars, setVars, args >>

TypedUnion ==
    /\ op' = "union"
    /\ ret' = union_of(acls, a, bcls, b)
    /\ UNCHANGED << rangeVars, treeVars, objVars, setVars, args >>

NextTyped ==
    \/ TypedLessThan
    \/ TypedIsDisjoint
    \/ TypedIntersection
    \/ TypedUnion

SpecTyped == InitTyped /\ [][NextTyped]_vars

(***************************************************************************)
(* The functions on collections of ranges.                                 *)
(***************************************************************************)
IndexError == [kind |-> "IndexError"]

(* The loop of any_overlapping over the sorted list: each range against the
   one before it. *)
RECURSIVE any_overlapping_loop(_, _)
any_overlapping_loop(prev_range, rest) ==
    IF rest = << >> THEN Bool(FALSE)
    ELSE LET common == intersection(prev_range, rest[1])
         IN  IF common = ValueError THEN ValueError
             ELSE IF common # NoneR THEN Bool(TRUE)
             ELSE any_overlapping_loop(rest[1], Tail(rest))

(* As any_overlapping, but the list is not sorted. *)
any_overlapping_unsorted(kind, ranges) ==
    IF kind = "list" /\ ranges = << >> THEN Bool(FALSE)
    ELSE IF ranges = << >> THEN IndexError
    ELSE any_overlapping_loop(ranges[1], Tail(ranges))

(* any_overlapping(ranges) for a list or a single-pass iterator of the
   ranges: "not ranges" is true of an empty list and false of every
   iterator. *)
any_overlapping(kind, ranges) ==
    IF kind = "list" /\ ranges = << >> THEN Bool(FALSE)
    ELSE LET in_order == sorted(ranges)
         IN  IF in_order = << >> THEN IndexError
             ELSE any_overlapping_loop(in_order[1], Tail(in_order))

(* sorted() of a set of datetimes. *)
RECURSIVE sorted_set(_)
sorted_set(S) ==
    IF S = { } THEN << >>
    ELSE << Min(S) >> \o sorted_set(S \ { Min(S) })

(* list(zip(starts, ends)). *)
zip(starts, ends) ==
    [i \in 1..Min2(Len(starts), Len(ends)) |-> << starts[i], ends[i] >>]

(* [FiniteDatetimeRange(start, end) for start, end in pairs]: the list, or
   the ValueError of the constructor. *)
RECURSIVE ranges_of_pairs(_)
ranges_of_pairs(pairs) ==
    IF pairs = << >> THEN List(<< >>)
    ELSE LET rest == ranges_of_pairs(Tail(pairs))
             made == New("FiniteDatetimeRange", Some(pairs[1][1]),
                         Some(pairs[1][2]), "[)")
         IN  IF made = ValueError \/ rest = ValueError THEN ValueError
             ELSE List(<< Typed("FiniteDatetimeRange", made) >> \o rest.items)

(* {timestamp for timestamp in timestamps if timestamp in range}, sorted. *)
timestamps_in_range(finite_datetime_range, timestamps) ==
    sorted_set({ timestamps[i] : i \in
                   { j \in 1..Len(timestamps) :
                       __contains__(finite_datetime_range, timestamps[j]) } })

(* As get_finite_datetime_ranges_from_timestamps, without "if start != end". *)
get_finite_datetime_ranges_from_timestamps_unfiltered(finite_datetime_range, timestamps) ==
    LET in_range == timestamps_in_range(finite_datetime_range, timestamps)
    IN  ranges_of_pairs(zip(<< finite_datetime_range.start[1] >> \o in_range,
                            in_range \o << finite_datetime_range.end[1] >>))

get_finite_datetime_ranges_from_timestamps(finite_datetime_range, timestamps) ==
    LET in_range == timestamps_in_range(finite_datetime_range, timestamps)
    IN  ranges_of_pairs(
            SelectSeq(zip(<< finite_datetime_range.start[1] >> \o in_range,
                          in_range \o << finite_datetime_range.end[1] >>),
                      LAMBDA pair : pair[1] # pair[2]))

(***************************************************************************)
(* SpecFn: the two functions called with every list of at most MaxList     *)
(* ranges over the points 0..MaxListPoint, given as a list or as an        *)
(* iterator, and with every finite period and at most MaxList timestamps   *)
(* over 0..MaxDate.                                                        *)
(***************************************************************************)
ListPoints == { Absent } \cup { Some(p) : p \in 0..MaxListPoint }

ListRanges ==
    { Range(s, e, bd) : s \in ListPoints, e \in ListPoints, bd \in RangeBoundaries }
        \ { ValueError }

ListsOf(S) == UNION { [1..n -> S] : n \in 0..MaxList }

IterableKinds == { "list", "iterator" }

InitFn ==
    /\ a = continuum
    /\ b = continuum
    /\ acls = "Range"
    /\ bcls = "Range"
    /\ cls = "Range"
    /\ obj = NoneR
    /\ before = NoneR
    /\ rs = << >>
    /\ tree = NoneR
    /\ intervals = << >>
    /\ held = { }
    /\ op = "idle"
    /\ args = << >>
    /\ ret = NoneR

(* any_overlapping(ranges): afterwards args[2] is what the caller's iterable
   still yields, a list as it was and an iterator nothing. *)
AnyOverlapping ==
    /\ op = "idle"
    /\ \E kind \in IterableKinds, ranges \in ListsOf(ListRanges) :
           /\ op' = "any_overlapping"
           /\ before' = ranges
           /\ args' = << kind, IF kind = "list" THEN ranges ELSE << >> >>
           /\ ret' = any_overlapping(kind, ranges)
    /\ UNCHANGED << rangeVars, treeVars, setVars, cls, obj >>

GetFiniteDatetimeRangesFromTimestamps ==
    /\ op = "idle"
    /\ \E period \in Instances("FiniteRange"), timestamps \in ListsOf(Dates) :
           /\ op' = "get_finite_datetime_ranges_from_timestamps"
           /\ before' = NoneR
           /\ args' = << period, timestamps >>
           /\ ret' = get_finite_datetime_ranges_from_timestamps(period, timestamps)
    /\ UNCHANGED << rangeVars, treeVars, setVars, cls, obj >>

NextFn ==
    \/ AnyOverlapping
    \/ GetFiniteDatetimeRangesFromTimestamps
    \/ Return

SpecFn == InitFn /\ [][NextFn]_vars

(***************************************************************************)
(* The points of what a call returned: of None none, of a Range those it   *)
(* contains, of a RangeSet those any member contains (contains_item).      *)
(***************************************************************************)
contains_item(ranges, item) ==
    \E i \in 1..Len(ranges) : __contains__(ranges[i], item)

Holds(r, x) ==
    IF r.kind = "Range" THEN __contains__(r, x)
    ELSE IF r.kind = "RangeSet" THEN contains_item(r.ranges, x)
    ELSE FALSE

(* C4: a.intersection(b) is None exactly when a.is_disjoint(b); a range it
   returns holds exactly the items of both a and b; when it is None no item
   is in both. *)
C4_IntersectionIsCommonPoints ==
    op = "intersection" =>
        /\ ret.kind \in { "None", "Range" }
        /\ (ret = NoneR) <=> is_disjoint(a, b)
        /\ ret.kind = "Range" =>
               \A x \in Items :
                   __contains__(ret, x) <=> (__contains__(a, x) /\ __contains__(b, x))
        /\ ret = NoneR =>
               ~ \E x \in Items : __contains__(a, x) /\ __contains__(b, x)

C4_Witness ==
    /\ op = "intersection"
    /\ ret.kind = "Range"
    /\ ret # a
    /\ ret # b
    /\ \E x \in Items : __contains__(ret, x)

(* The lower and the higher of two ranges in the Range order. *)
Lower(x, y) == IF __lt__(x, y) THEN x ELSE y

Higher(x, y) == IF __lt__(x, y) THEN y ELSE x

Touching(x, y) ==
    /\ Lower(x, y).end = Higher(x, y).start
    /\ (_is_right_inclusive(Lower(x, y)) \/ _is_left_inclusive(Higher(x, y)))

(* C5: a.union(b) is None exactly when a and b are disjoint and not
   touching; otherwise it is one range holding exactly the items of a and
   the items of b. *)
C5_UnionIsAllPoints ==
    op = "union" =>
        /\ ret.kind \in { "None", "Range" }
        /\ (ret = NoneR) <=> (is_disjoint(a, b) /\ ~ Touching(a, b))
        /\ ret.kind = "Range" =>
               \A x \in Items :
                   __contains__(ret, x) <=> (__contains__(a, x) \/ __contains__(b, x))

C5_Witness ==
    /\ op = "union"
    /\ is_disjoint(a, b)
    /\ Touching(a, b)
    /\ ret.kind = "Range"

(* C6: for all valid ranges a and b, a.intersection(b) is a range (not
   None, and no exception) or a.is_disjoint(b) is true. *)
C6_IntersectionOrDisjoint ==
    op = "intersection" => (ret.kind = "Range" \/ is_disjoint(a, b))

C6_Witness ==
    /\ op = "intersection"
    /\ ret.kind = "Range"
    /\ ret.start = ret.end
    /\ a.boundaries # b.boundaries

(* b covers all of a: every item of a is an item of b. *)
Covers(y, x) == \A i \in Items : __contains__(x, i) => __contains__(y, i)

(* b removes a middle part of a: items of a outside b lie on both sides of
   an item of b. *)
CutsInTwo(y, x) ==
    \E lo \in Items, mid \in Items, hi \in Items :
        /\ lo < mid
        /\ mid < hi
        /\ __contains__(x, lo) /\ ~ __contains__(y, lo)
        /\ __contains__(y, mid)
        /\ __contains__(x, hi) /\ ~ __contains__(y, hi)

(* C7: a.difference(b) is a itself when a.is_disjoint(b); otherwise None
   exactly when b covers all of a, a RangeSet of exactly two ranges exactly
   when b cuts a middle part out of a, and a single Range otherwise; and
   whatever is returned holds exactly the items of a that are not in b. *)
C7_DifferenceIsRemainingPoints ==
    op = "difference" =>
        /\ ret.kind \in { "None", "Range", "RangeSet" }
        /\ is_disjoint(a, b) => ret = a
        /\ ~ is_disjoint(a, b) =>
               /\ (ret = NoneR) <=> Covers(b, a)
               /\ (ret.kind = "RangeSet") <=> CutsInTwo(b, a)
               /\ ret.kind = "RangeSet" => Len(ret.ranges) = 2
        /\ ret # NoneR =>
               \A x \in Items :
                   Holds(ret, x) <=> (__contains__(a, x) /\ ~ __contains__(b, x))

C7_Witness ==
    /\ op = "difference"
    /\ ret.kind = "RangeSet"
    /\ Len(ret.ranges) = 2
    /\ a.boundaries # b.boundaries

(* C8: union and intersection of ranges are commutative: a | b == b | a and
   a & b == b & a. *)
C8_Commutative ==
    /\ op = "union" => (ret # ValueError /\ ret = union(b, a))
    /\ op = "intersection" => (ret # ValueError /\ ret = intersection(b, a))

C8_Witness ==
    /\ op = "intersection"
    /\ ret.kind = "Range"
    /\ __lt__(b, a)
    /\ a.start = b.start
    /\ a.boundaries # b.boundaries

(* C9: if u = a | b is not None then u & a == a and u & b == b. *)
C9_Absorption ==
    (op = "union" /\ ret # NoneR) =>
        /\ ret.kind = "Range"
        /\ intersection(ret, a) = a
        /\ intersection(ret, b) = b

C9_Witness ==
    /\ op = "union"
    /\ ret.kind = "Range"
    /\ ret # a
    /\ ret # b

(* C10: with da = a - b, db = b - a, i = a & b: if i is None then da == a
   and db == b; if i is a range and da and db are both single ranges then
   da & db is None, da.is_disjoint(db) and da | i | db == a | b; if da is a
   RangeSet then db is None and da united with {i} equals RangeSet([a]). *)
C10_DifferencePartition ==
    op = "difference" =>
        LET da == ret
            db == difference(b, a)
            i == intersection(a, b)
        IN  /\ i = NoneR => (da = a /\ db = b)
            /\ (i.kind = "Range" /\ da.kind = "Range" /\ db.kind = "Range") =>
                   /\ intersection(da, db) = NoneR
                   /\ is_disjoint(da, db)
                   /\ union(da, i).kind = "Range"
                   /\ union(union(da, i), db) = union(a, b)
                   /\ union(a, b).kind = "Range"
            /\ da.kind = "RangeSet" =>
                   /\ db = NoneR
                   /\ i.kind = "Range"
                   /\ RangeSet_union(da, RangeSet(<< i >>)) = RangeSet(<< a >>)

C10_Witness ==
    /\ op = "difference"
    /\ ret.kind = "Range"
    /\ difference(b, a).kind = "Range"
    /\ intersection(a, b).kind = "Range"
    /\ a.boundaries # b.boundaries

C10_WitnessSplit ==
    /\ op = "difference"
    /\ ret.kind = "RangeSet"
    /\ difference(b, a) = NoneR

(* C2: Range(start, end, boundaries) succeeds exactly when an absent start
   comes with an exclusive left boundary, an absent end with an exclusive
   right boundary and, both being present, start < end (start <= end for
   "[]"); otherwise it raises ValueError and there is no Range. *)
ArgsValid(start, end, boundaries) ==
    /\ start = Absent => boundaries \in { "()", "(]" }
    /\ end = Absent => boundaries \in { "()", "[)" }
    /\ (start # Absent /\ end # Absent) =>
           IF boundaries = "[]" THEN start[1] <= end[1] ELSE start[1] < end[1]

C2_ConstructionValidates ==
    (op = "new" /\ cls = "Range") =>
        IF ArgsValid(args[1], args[2], args[3])
        THEN /\ ret = [kind |-> "Range", start |-> args[1], end |-> args[2],
                       boundaries |-> args[3]]
             /\ obj # NoneR
        ELSE /\ ret = ValueError
             /\ obj = NoneR

C2_Witness ==
    /\ op = "new"
    /\ cls = "Range"
    /\ ret.kind = "Range"
    /\ ret.start # Absent
    /\ ret.start = ret.end

C2_WitnessRejected ==
    /\ op = "new"
    /\ cls = "Range"
    /\ ret = ValueError
    /\ args[1] # Absent
    /\ args[1] = args[2]

(* C3: assigning start, end or boundaries on a constructed range of any of
   the classes raises AttributeError and leaves the value as it was. *)
C3_AssignmentFails ==
    (op = "setattr" /\ args[1] \in { "start", "end", "boundaries" }) =>
        (ret = AttributeError /\ obj = before)

(* What holds of the code: the assignment fails on an instance of Range
   itself, and on the subclasses it goes through. *)
C3_AssignmentFailsOnRangeOnly ==
    (op = "setattr" /\ args[1] \in { "start", "end", "boundaries" }) =>
        IF cls = "Range"
        THEN ret = AttributeError /\ obj = before
        ELSE ret = NoneR

(* C1: the member list of a RangeSet is sorted ascending in the Range
   order, its members are pairwise disjoint and no two of them have a
   union; this holds of the set after construction and after every add,
   discard and pop, and of the sets union, intersection, complement and
   difference return; none of these calls raises. *)
SetInvariant(ranges) ==
    /\ \A i \in 1..(Len(ranges) - 1) : __lt__(ranges[i], ranges[i + 1])
    /\ \A i \in 1..Len(ranges), j \in 1..Len(ranges) :
           i # j => /\ is_disjoint(ranges[i], ranges[j])
                    /\ union(ranges[i], ranges[j]) = NoneR

C1_SetInvariant ==
    /\ SetInvariant(rs)
    /\ ret # ValueError
    /\ op \in { "new", "set_union", "set_intersection", "complement",
                "set_difference" } =>
           (ret.kind = "RangeSet" /\ SetInvariant(ret.ranges))

C1_Witness ==
    /\ op = "discard"
    /\ Len(rs) >= 3
    /\ \E i \in 1..Len(rs) : rs[i].boundaries = "[]"

(***************************************************************************)
(* The order the Range order is said to be: by start, an absent start      *)
(* lowest and an inclusive start before an exclusive one at the same       *)
(* value, then by end, an absent end highest and an exclusive end before   *)
(* an inclusive one at the same value.                                     *)
(***************************************************************************)
StartRank(r) ==
    IF r.start = Absent THEN 0 - 1
    ELSE 2 * r.start[1] + (IF _is_left_exclusive(r) THEN 1 ELSE 0)

EndRank(r) ==
    IF r.end = Absent THEN 4 * MaxPoint + 2
    ELSE 2 * r.end[1] + (IF _is_right_exclusive(r) THEN 0 ELSE 1)

Before(x, y) ==
    \/ StartRank(x) < StartRank(y)
    \/ (StartRank(x) = StartRank(y) /\ EndRank(x) < EndRank(y))

(* C11: < is a strict total order on valid ranges that agrees with ==:
   exactly one of a < b, a == b, b < a holds, < is transitive, and a < b is
   the order by start and then by end described above. *)
C11_StrictTotalOrder ==
    /\ Cardinality({ k \in 1..3 :
                       \/ (k = 1 /\ __lt__(a, b))
                       \/ (k = 2 /\ __eq__(a, b))
                       \/ (k = 3 /\ __lt__(b, a)) }) = 1
    /\ \A c \in ValidRanges : (__lt__(a, b) /\ __lt__(b, c)) => __lt__(a, c)
    /\ __lt__(a, b) <=> Before(a, b)
    /\ op = "lt" => ret = Bool(Before(a, b))

(* Two ranges that differ only in the right boundary, the exclusive one
   compared to the inclusive one. *)
C11_Witness ==
    /\ op = "lt"
    /\ ret = Bool(TRUE)
    /\ a.start = b.start
    /\ a.end = b.end
    /\ a.end # Absent
    /\ _is_left_exclusive(a) = _is_left_exclusive(b)

(* C12: x is in rs.complement() exactly when x is not in rs; rs and its
   complement are disjoint; the complement of the empty set is
   {(None,None)}; the complement of the complement holds exactly the items
   of rs. *)
C12_ComplementIsOtherPoints ==
    op = "complement" =>
        /\ ret.kind = "RangeSet"
        /\ \A x \in Items : contains_item(ret.ranges, x) <=> ~ contains_item(rs, x)
        /\ RangeSet_is_disjoint(Self, ret)
        /\ (rs = << >> => ret.ranges = << continuum >>)
        /\ LET twice == complement(ret)
           IN  /\ twice.kind = "RangeSet"
               /\ \A x \in Items :
                      contains_item(twice.ranges, x) <=> contains_item(rs, x)

(* The complement of a set with a gap between two members and a finite
   first start: it has a part before, between and after. *)
C12_Witness ==
    /\ op = "complement"
    /\ Len(rs) >= 2
    /\ rs[1].start # Absent
    /\ ret.kind = "RangeSet"
    /\ Len(ret.ranges) >= 3

(* The complement of the empty set. *)
C12_WitnessEmpty ==
    /\ op = "complement"
    /\ rs = << >>
    /\ ret.kind = "RangeSet"

(* C13: A - B is A.intersection(B.complement()), and x is in A - B exactly
   when x is in A and not in B, whatever the boundaries of the members and
   whether or not their ends are bounded. *)
C13_SetDifferenceIsRemainingPoints ==
    op = "set_difference" =>
        /\ ret.kind = "RangeSet"
        /\ complement(args[1]).kind = "RangeSet"
        /\ ret = RangeSet_intersection(Self, complement(args[1]))
        /\ \A x \in Items :
               contains_item(ret.ranges, x) <=>
                   (contains_item(rs, x) /\ ~ contains_item(args[1].ranges, x))

(* B cuts a member of A in two: A - B has more members than A. *)
C13_Witness ==
    /\ op = "set_difference"
    /\ rs # << >>
    /\ args[1].ranges # << >>
    /\ ret.kind = "RangeSet"
    /\ Len(ret.ranges) > Len(rs)
    /\ \E i \in 1..Len(rs) : rs[i].start = Absent

(* C14: the contents of a RangeSet do not depend on the order of insertion:
   RangeSet([x]) after add(y), RangeSet([y]) after add(x) and
   RangeSet([x, y]) are equal, for all valid ranges x and y. *)
C14_AddOrderIndependent ==
    (op = "add" /\ Len(before) = 1) =>
        LET x == before[1]
            y == args[1]
        IN  /\ ret = NoneR
            /\ RangeSet(<< x >>) = [kind |-> "RangeSet", ranges |-> before]
            /\ add(RangeSet(<< y >>), x) = Self
            /\ RangeSet(<< x, y >>) = Self
            /\ RangeSet(<< y, x >>) = Self

(* The range added sorts before the one the set was built from, and the two
   do not merge. *)
C14_Witness ==
    /\ op = "add"
    /\ Len(before) = 1
    /\ __lt__(args[1], before[1])
    /\ Len(rs) = 2

(* The range added sorts after the one the set was built from, and the two
   merge. *)
C14_WitnessMerged ==
    /\ op = "add"
    /\ Len(before) = 1
    /\ __lt__(before[1], args[1])
    /\ Len(rs) = 1
    /\ rs[1] # before[1]
    /\ rs[1] # args[1]

(* C15: after rs.discard(r), x is in rs exactly when x was in rs before the
   call and x is not in r; discarding a range that is disjoint from every
   member leaves rs as it was. *)
C15_DiscardRemovesPoints ==
    op = "discard" =>
        /\ ret = NoneR
        /\ \A x \in Items :
               contains_item(rs, x) <=>
                   (contains_item(before, x) /\ ~ __contains__(args[1], x))
        /\ (\A i \in 1..Len(before) : is_disjoint(before[i], args[1])) =>
               rs = before

(* The range discarded lies inside a member and cuts it in two, while
   another member is left alone. *)
C15_Witness ==
    /\ op = "discard"
    /\ Len(before) = 2
    /\ Len(rs) = 3
    /\ \E i \in 1..2 : is_disjoint(before[i], args[1])

(* The range discarded is disjoint from every member of a set that has
   members. *)
C15_WitnessDisjoint ==
    /\ op = "discard"
    /\ Len(before) >= 2
    /\ \A i \in 1..Len(before) : is_disjoint(before[i], args[1])

(* The number of calls of pop a set takes before pop raises KeyError. *)
RECURSIVE PopsToEmpty(_)
PopsToEmpty(self) ==
    LET popped == pop(self)
    IN  IF popped.kind = "popped" THEN 1 + PopsToEmpty(popped.set) ELSE 0

(* C16: pop() on an empty set raises KeyError and leaves the set empty; on a
   set with members it returns the first in sort order and leaves exactly
   the other members, unchanged, so that len goes down by one and a set is
   drained by as many calls of pop as it has members. *)
C16_PopTakesFirst ==
    /\ op = "pop" =>
           IF before = << >>
           THEN ret = KeyError /\ rs = << >>
           ELSE /\ ret = before[1]
                /\ \A i \in 2..Len(before) : __lt__(ret, before[i])
                /\ rs = Tail(before)
                /\ Len(rs) = Len(before) - 1
    /\ op = "idle" => PopsToEmpty(Self) = Len(rs)

(* pop on a set of three members. *)
C16_Witness ==
    /\ op = "pop"
    /\ Len(before) = 3
    /\ ret.kind = "Range"

(* pop on the empty set. *)
C16_WitnessEmpty ==
    /\ op = "pop"
    /\ before = << >>
    /\ ret = KeyError

(* The Interval objects the tree holds: the data of its intervals. *)
HeldByTree == { iv.data : iv \in tree.all_intervals }

(* C17: after any sequence of insert, remove and remove_all the tree holds
   exactly the Interval objects, told apart by identity, that were inserted
   and not removed since: objects of the same start, end and data are
   separate entries, remove(i) deletes i alone, removing an interval that
   is not held changes nothing and raises no error, len() is the number of
   intervals held and is_empty() is true exactly when that is 0. *)
C17_HoldsInsertedNotRemoved ==
    tree # NoneR =>
        /\ HeldByTree = held
        /\ _tree_len(tree) = Cardinality(held)
        /\ op = "insert" /\ ret # ValueError => ret = IntervalRef(args[1])
        /\ op = "remove" => ret = NoneR
        /\ op = "len" => ret = Value(Cardinality(held))
        /\ op = "is_empty" => ret = Bool(held = { })
        /\ op = "all" => { ret.items[k] : k \in 1..Len(ret.items) } = held

(* One of two objects of the same start, end and data has been removed and
   the other is still held. *)
C17_Witness ==
    /\ op = "remove"
    /\ args[1] \notin held
    /\ \E i \in held :
           /\ intervals[i]._start = intervals[args[1]]._start
           /\ intervals[i]._end = intervals[args[1]]._end
           /\ intervals[i]._data = intervals[args[1]]._data
           /\ intervals[args[1]]._interval # NoneR

(* remove of an interval that was never given to the tree, which holds
   another. *)
C17_WitnessAbsent ==
    /\ op = "remove"
    /\ intervals[args[1]]._interval = NoneR
    /\ Cardinality(held) = 1

(* Whether a list of Interval objects is sorted by start and then end. *)
SortedByStartThenEnd(l) ==
    \A i, j \in 1..Len(l) :
        i < j =>
            \/ intervals[l[i]]._start < intervals[l[j]]._start
            \/ /\ intervals[l[i]]._start = intervals[l[j]]._start
               /\ intervals[l[i]]._end <= intervals[l[j]]._end

Elements(l) == { l[k] : k \in 1..Len(l) }

(* C18: overlapping(s, e) returns exactly the held intervals i for which
   max(s, i.start) < min(e, i.end), so nothing when s >= e, and
   overlapping_point(p) exactly those with i.start <= p < i.end; both
   results are sorted by start and then end. *)
C18_OverlappingIsIntersecting ==
    /\ op = "overlapping" =>
           /\ ret.kind = "list"
           /\ Elements(ret.items) =
                  { i \in held :
                        Max({ args[1], intervals[i]._start }) <
                            Min({ args[2], intervals[i]._end }) }
           /\ Len(ret.items) = Cardinality(Elements(ret.items))
           /\ args[1] >= args[2] => ret.items = << >>
           /\ SortedByStartThenEnd(ret.items)
    /\ op = "overlapping_point" =>
           /\ ret.kind = "list"
           /\ Elements(ret.items) =
                  { i \in held :
                        intervals[i]._start <= args[1] /\ args[1] < intervals[i]._end }
           /\ Len(ret.items) = Cardinality(Elements(ret.items))
           /\ SortedByStartThenEnd(ret.items)

(* A query that returns two intervals, one of which starts after the query
   does. *)
C18_Witness ==
    /\ op = "overlapping"
    /\ Len(ret.items) = 2
    /\ \E k \in 1..2 : args[1] < intervals[ret.items[k]]._start

(* A query that returns some of the held intervals and leaves out
   another. *)
C18_WitnessLeftOut ==
    /\ op = "overlapping"
    /\ ret.items # << >>
    /\ \E i \in held : i \notin Elements(ret.items)

(* A query at the end of a held interval, which is not part of it. *)
C18_WitnessPoint ==
    /\ op = "overlapping_point"
    /\ Len(ret.items) = 1
    /\ \E i \in held : intervals[i]._end = args[1]

(* C19: after any sequence of insert, remove and remove_all, start() is the
   least start and end() the greatest end of the intervals held, and both
   are None exactly when the tree holds none, also after the interval that
   had the least start or the greatest end has been removed. *)
C19_StartEndAreExtremes ==
    /\ op = "start" =>
           ret = IF held = { } THEN NoneR
                 ELSE Value(Min({ intervals[i]._start : i \in held }))
    /\ op = "end" =>
           ret = IF held = { } THEN NoneR
                 ELSE Value(Max({ intervals[i]._end : i \in held }))

(* start() after an interval of a lesser start than any now held was given
   to the tree and removed. *)
C19_Witness ==
    /\ op = "start"
    /\ ret.kind = "value"
    /\ \E i \in 1..Len(intervals) :
           /\ i \notin held
           /\ intervals[i]._interval # NoneR
           /\ intervals[i]._start < intervals[i]._end
           /\ intervals[i]._start < ret.value

(* end() of a tree that has been emptied. *)
C19_WitnessEmptied ==
    /\ op = "end"
    /\ ret = NoneR
    /\ \E i \in 1..Len(intervals) :
           /\ intervals[i]._interval # NoneR
           /\ intervals[i]._start < intervals[i]._end

(* C20: Interval(start, end, data) raises ValueError exactly when
   start > end, and nothing else of the interval tree fails: every Interval
   that was made, one with start == end too, can be given to insert or to
   the constructor of IntervalTree without an error and is then held. *)
C20_OnlyConstructionFails ==
    /\ op = "Interval" => (ret = ValueError <=> args[1] > args[2])
    /\ op = "insert" => (ret # ValueError /\ args[1] \in HeldByTree)
    /\ op = "IntervalTree" =>
           /\ ret # ValueError
           /\ tree # NoneR
           /\ Elements(args[1]) \subseteq HeldByTree

(* What holds instead: Interval raises exactly when start > end, and insert
   and the constructor of IntervalTree raise ValueError exactly when they
   are given an interval with start == end that the tree does not hold. *)
C20_EmptyIntervalIsRejected ==
    /\ op = "Interval" => (ret = ValueError <=> args[1] > args[2])
    /\ op = "insert" =>
           IF intervals[args[1]]._start = intervals[args[1]]._end
           THEN ret = ValueError /\ args[1] \notin HeldByTree
           ELSE ret = IntervalRef(args[1]) /\ args[1] \in HeldByTree
    /\ op = "IntervalTree" =>
           IF \E i \in Elements(args[1]) : intervals[i]._start = intervals[i]._end
           THEN ret = ValueError /\ tree = NoneR
           ELSE ret = NoneR /\ Elements(args[1]) = HeldByTree

(***************************************************************************)
(* Claims about the classes (SpecTyped).                                   *)
(***************************************************************************)
FiniteDateRange(start, end) ==
    Typed("FiniteDateRange", New("FiniteDateRange", Some(start), Some(end), "[]"))

BothAre(c) == acls = c /\ bcls = c

(* C21: for FiniteDateRanges a and b with a.end before b.start: when b.start
   is the day after a.end, a.is_disjoint(b) is False, a | b and b | a are
   FiniteDateRange(a.start, b.end) and a & b is None; when the gap is two
   days or more, a.is_disjoint(b) is True and a | b is None.  For
   overlapping a and b, a & b is FiniteDateRange(later start, earlier end)
   and a | b is FiniteDateRange(earlier start, later end). *)
C21_DateRangesADayApartTouch ==
    BothAre("FiniteDateRange") =>
        LET as == a.start[1]
            ae == a.end[1]
            bs == b.start[1]
            be == b.end[1]
        IN  /\ ae + 1 = bs =>
                /\ op = "is_disjoint" => ret = Bool(FALSE)
                /\ op = "union" => ret = FiniteDateRange(as, be)
                /\ op = "intersection" => ret = NoneR
            /\ be + 1 = as =>
                (op = "union" => ret = FiniteDateRange(bs, ae))
            /\ ae + 1 < bs =>
                /\ op = "is_disjoint" => ret = Bool(TRUE)
                /\ op = "union" => ret = NoneR
            /\ (as <= be /\ bs <= ae) =>
                /\ op = "intersection" =>
                       ret = FiniteDateRange(Max2(as, bs), Min2(ae, be))
                /\ op = "union" =>
                       ret = FiniteDateRange(Min2(as, bs), Max2(ae, be))

C21_Witness ==
    /\ BothAre("FiniteDateRange")
    /\ a.end[1] + 1 = b.start[1]
    /\ op = "union"
    /\ ret = FiniteDateRange(a.start[1], b.end[1])

C21_WitnessGap ==
    /\ BothAre("FiniteDateRange")
    /\ a.end[1] + 1 < b.start[1]
    /\ op = "union"
    /\ ret = NoneR

C21_WitnessOverlap ==
    /\ BothAre("FiniteDateRange")
    /\ a.start[1] < b.start[1]
    /\ b.start[1] < a.end[1]
    /\ a.end[1] < b.end[1]
    /\ op = "intersection"
    /\ ret = FiniteDateRange(b.start[1], a.end[1])

(* The bound of other that FiniteDateRange.is_disjoint moves a day outward
   cannot be moved: it is inclusive and is date.min or date.max. *)
AtEdgeOfTime(r) ==
    \/ (_is_left_inclusive(r) /\ r.start[1] = 0)
    \/ (_is_right_inclusive(r) /\ r.end[1] = MaxDate)

(* other with each inclusive bound a day further out, where there is such a
   day. *)
Saturated(r) ==
    Range(IF _is_left_inclusive(r) THEN Some(Max2(r.start[1] - 1, 0))
          ELSE r.start,
          IF _is_right_inclusive(r) THEN Some(Min2(r.end[1] + 1, MaxDate))
          ELSE r.end,
          r.boundaries)

(* C22: FiniteDateRange.is_disjoint(other) does not raise when an inclusive
   bound of other is date.min or date.max: the bound stays where it is and
   the answer is the bool for other extended that way. *)
C22_NoOverflowAtEdgeOfTime ==
    (acls = "FiniteDateRange" /\ op = "is_disjoint" /\ AtEdgeOfTime(b)) =>
        /\ ret.kind = "bool"
        /\ ret.value = is_disjoint(a, Saturated(b))

C22_Witness ==
    /\ acls = "FiniteDateRange"
    /\ op = "is_disjoint"
    /\ _is_left_inclusive(b)
    /\ b.start[1] = 0
    /\ ret = Bool(FALSE)

C22_WitnessMax ==
    /\ acls = "FiniteDateRange"
    /\ op = "is_disjoint"
    /\ _is_right_inclusive(b)
    /\ b.end[1] = MaxDate
    /\ ret = Bool(TRUE)

FiniteDatetimeRange(start, end) ==
    Typed("FiniteDatetimeRange",
          New("FiniteDatetimeRange", Some(start), Some(end), "[)"))

(* C23: for two FiniteDatetimeRanges a and b, a.intersection(b) and
   a.union(b) have the start and end (or are None) that Range.intersection
   and Range.union give for the "[)" ranges with the same endpoints: the
   intersection is [later start, earlier end) when later start < earlier
   end and None otherwise; the union is [earlier start, later end) when the
   later start <= the end of the range that starts first, and None
   otherwise. *)
C23_FastPathIsGeneric ==
    BothAre("FiniteDatetimeRange") =>
        LET as == a.start[1]
            ae == a.end[1]
            bs == b.start[1]
            be == b.end[1]
            end_of_first == IF as <= bs THEN ae ELSE be
        IN  /\ op = "intersection" =>
                /\ Plain(ret) = intersection(a, b)
                /\ ret = IF Max2(as, bs) < Min2(ae, be)
                         THEN FiniteDatetimeRange(Max2(as, bs), Min2(ae, be))
                         ELSE NoneR
            /\ op = "union" =>
                /\ Plain(ret) = union(a, b)
                /\ ret = IF Max2(as, bs) <= end_of_first
                         THEN FiniteDatetimeRange(Min2(as, bs), Max2(ae, be))
                         ELSE NoneR

C23_Witness ==
    /\ BothAre("FiniteDatetimeRange")
    /\ b.start[1] < a.start[1]
    /\ a.start[1] < b.end[1]
    /\ b.end[1] < a.end[1]
    /\ op = "intersection"
    /\ ret = FiniteDatetimeRange(a.start[1], b.end[1])

C23_WitnessUnion ==
    /\ BothAre("FiniteDatetimeRange")
    /\ a.end = b.start
    /\ op = "union"
    /\ ret = FiniteDatetimeRange(a.start[1], b.end[1])

C23_WitnessApart ==
    /\ BothAre("FiniteDatetimeRange")
    /\ b.end[1] < a.start[1]
    /\ op = "union"
    /\ ret = NoneR

(* C24: intersections with finite ranges are finite: for a with both
   endpoints present and any valid Range b, what a.intersection(b) returns
   is None or has both its start and its end. *)
C24_FiniteIntersection ==
    (op = "intersection" /\ a.start # Absent /\ a.end # Absent) =>
        \/ IsError(ret)
        \/ ret = NoneR
        \/ (ret.kind = "Range" /\ ret.start # Absent /\ ret.end # Absent)

C24_Witness ==
    /\ op = "intersection"
    /\ acls = "FiniteRange"
    /\ b.start = Absent
    /\ b.end = Absent
    /\ ret.kind = "Range"
    /\ ret.start = a.start
    /\ ret.end = a.end

C24_WitnessHalf ==
    /\ op = "intersection"
    /\ acls = "Range"
    /\ a.start # Absent
    /\ a.end # Absent
    /\ b.end = Absent
    /\ ret.kind = "Range"
    /\ ret.start = b.start
    /\ ret.end = a.end

(* C25: intersections with half-finite ranges are half-finite: for a
   HalfFiniteRange a and any valid Range b, a.intersection(b) that is not
   None has a present, inclusive start and an exclusive end. *)
C25_HalfFiniteIntersection ==
    (op = "intersection" /\ acls = "HalfFiniteRange" /\ ret.kind = "Range") =>
        /\ ret.start # Absent
        /\ ret.boundaries = "[)"

(* What holds instead: the intersection has the start and the start bound of
   the operand that sorts higher and the end and the end bound of the one
   that ends first, whatever class a is. *)
C25_IntersectionIsRangesOwn ==
    (op = "intersection" /\ acls = "HalfFiniteRange") =>
        /\ Plain(ret) = intersection(a, b)
        /\ ret.kind = "Range" => ret.class = "Range"

(* C28: for a FiniteDateRange or FiniteDatetimeRange a and any valid Range b
   over the same element type, a.intersection(b) and a.union(b) raise
   nothing, and the intersection is None or an instance of a's class. *)
C28_NeverRaises ==
    (/\ acls \in { "FiniteDateRange", "FiniteDatetimeRange" }
     /\ op \in { "intersection", "union" }) =>
        /\ ~ IsError(ret)
        /\ op = "intersection" => (ret = NoneR \/ ret.class = acls)

(* What holds instead: the ValueError of the underlying algorithm is not
   propagated by FiniteDateRange, and a result of the underlying algorithm
   whose boundaries are not the class's own is an AssertionError. *)
C28_RaisesOnOtherBoundaries ==
    (/\ acls \in { "FiniteDateRange", "FiniteDatetimeRange" }
     /\ op \in { "intersection", "union" }) =>
        /\ acls = "FiniteDateRange" => ret # ValueError
        /\ ret # OverflowError
        /\ (op = "intersection" /\ ~ IsError(ret)) =>
               (ret = NoneR \/ ret.class = acls)

(* C29: for a FiniteDatetimeRange and a valid Range of another class, the
   union and the intersection, with either as the receiver, have the start,
   end and boundaries that Range.union and Range.intersection give for the
   same two ranges as plain Ranges. *)
C29_LessThanOverrideIsHarmless ==
    (/\ (acls = "FiniteDatetimeRange") # (bcls = "FiniteDatetimeRange")
     /\ op \in { "intersection", "union" }) =>
        Plain(ret) = IF op = "union" THEN union(a, b) ELSE intersection(a, b)

(***************************************************************************)
(* Claims about the functions (SpecFn).                                    *)
(***************************************************************************)
(* Some two entries at distinct positions have an intersection. *)
SomePairOverlaps(ranges) ==
    \E i \in 1..Len(ranges), j \in 1..Len(ranges) :
        i # j /\ intersection(ranges[i], ranges[j]) # NoneR

(* The list with its entries at i and i + 1 exchanged; every reordering of a
   list is a chain of such exchanges. *)
Exchanged(ranges, i) ==
    [k \in 1..Len(ranges) |->
        IF k = i THEN ranges[i + 1] ELSE IF k = i + 1 THEN ranges[i] ELSE ranges[k]]

(* C26: any_overlapping(ranges) is True exactly when some two entries at
   distinct positions have a non-None intersection; it is False for an
   empty input, the same for every ordering of the input, and the caller's
   list is left as it was. *)
C26_AnyOverlappingIsSomePair ==
    op = "any_overlapping" =>
        /\ ret = Bool(SomePairOverlaps(before))
        /\ before = << >> => ret = Bool(FALSE)
        /\ \A i \in 1..(Len(before) - 1) :
               any_overlapping(args[1], Exchanged(before, i)) = ret
        /\ args[1] = "list" => args[2] = before

(* What holds instead: all of it for a list and for an iterator that yields
   something; an iterator that yields nothing raises IndexError. *)
C26_EmptyIteratorRaises ==
    op = "any_overlapping" =>
        IF args[1] = "iterator" /\ before = << >>
        THEN ret = IndexError
        ELSE /\ ret = Bool(SomePairOverlaps(before))
             /\ \A i \in 1..(Len(before) - 1) :
                    any_overlapping(args[1], Exchanged(before, i)) = ret
             /\ args[1] = "list" => args[2] = before

(* The ranges are consecutive pieces of the period, each from a start to a
   later end, and the points between them are the timestamps strictly
   inside the period, once each and ascending. *)
PartitionsAtTimestamps(period, timestamps, pieces) ==
    /\ Len(pieces) >= 1
    /\ pieces[1].start = period.start
    /\ pieces[Len(pieces)].end = period.end
    /\ \A i \in 1..Len(pieces) :
           /\ pieces[i] = FiniteDatetimeRange(pieces[i].start[1], pieces[i].end[1])
           /\ pieces[i].start[1] < pieces[i].end[1]
    /\ \A i \in 1..(Len(pieces) - 1) : pieces[i].end = pieces[i + 1].start
    /\ [i \in 1..(Len(pieces) - 1) |-> pieces[i].end[1]]
           = sorted_set({ t \in Elements(timestamps) :
                            period.start[1] < t /\ t < period.end[1] })

(* The statement of C27 as it was made, of every finite period. *)
C27_PartitionOfEveryPeriod ==
    op = "get_finite_datetime_ranges_from_timestamps" =>
        /\ ret.kind = "list"
        /\ PartitionsAtTimestamps(args[1], args[2], ret.items)

(* C27: for a period whose start is before its end,
   get_finite_datetime_ranges_from_timestamps(period, timestamps) returns
   consecutive non-empty ranges from period.start to period.end whose
   interior cut points are the distinct timestamps strictly inside the
   period, ascending; a period of a single point gives no ranges. *)
C27_PartitionOfPeriod ==
    op = "get_finite_datetime_ranges_from_timestamps" =>
        /\ ret.kind = "list"
        /\ IF args[1].start[1] < args[1].end[1]
           THEN PartitionsAtTimestamps(args[1], args[2], ret.items)
           ELSE ret.items = << >>

C27_Witness ==
    /\ op = "get_finite_datetime_ranges_from_timestamps"
    /\ args[1].start = Some(0)
    /\ args[1].end = Some(3)
    /\ args[2] = << 2, 3, 2 >>
    /\ ret = List(<< FiniteDatetimeRange(0, 2), FiniteDatetimeRange(2, 3) >>)

C27_WitnessThree ==
    /\ op = "get_finite_datetime_ranges_from_timestamps"
    /\ args[1].boundaries = "[]"
    /\ args[2] = << 2, 0, 1 >>
    /\ ret.kind = "list"
    /\ Len(ret.items) = 3

C27_WitnessPoint ==
    /\ op = "get_finite_datetime_ranges_from_timestamps"
    /\ args[1].start = args[1].end
    /\ ret = List(<< >>)

(***************************************************************************)
(* Claims about the constructor of IntervalTree (SpecLoad).                *)
(***************************************************************************)
(* C30: an interval loaded by the constructor of IntervalTree, from a list
   or from a single-pass iterator, is removed by remove(i) as one added by
   insert is: afterwards the tree does not hold i, and len() and all() give
   the intervals loaded or inserted and not removed since. *)
C30_LoadedCanBeRemoved ==
    tree # NoneR =>
        /\ op = "remove" => args[1] \notin HeldByTree
        /\ op = "len" => ret = Value(Cardinality(held))
        /\ op = "all" => Elements(ret.items) = held

(* What holds instead: remove(i) leaves the tree without i exactly when i
   has its _interval, which insert and a constructor given a list set and a
   constructor given an iterator does not. *)
C30_RemovedWhenIntervalWasSet ==
    (tree # NoneR /\ op = "remove") =>
        (args[1] \in HeldByTree <=>
            /\ intervals[args[1]]._interval = NoneR
            /\ \E kept \in tree.all_intervals : kept.data = args[1])

====
